---- MODULE Spec2Model ----
(***************************************************************************)
(* pi-theme-sync (src/index.ts): the appearance resolution engine          *)
(* (override file -> OSC 11 terminal probe -> OS query) and the extension  *)
(* around it (tick, periodic timer, commands, session lifecycle).          *)
(*                                                                         *)
(* Every `await` of the source is a step boundary: a handler runs from one *)
(* await to the next as one atomic action (the JavaScript event loop runs  *)
(* a continuation to its next await without interleaving), and the         *)
(* continuation of an awaited call that returns is part of the step that   *)
(* makes it return.  Time is in milliseconds.                              *)
(***************************************************************************)
EXTENDS Integers, FiniteSets, Sequences, Bags, TLC

\* ------------------------------------------------------------------------
\* Constants of src/index.ts
\* ------------------------------------------------------------------------
MIN_POLL_MS == 1000
OSC11_QUERY_TIMEOUT_MS == 3200
OSC11_KILL_MARGIN_MS == 300
OSC11_SCRIPT_DEADLINE_MS == 2500
OSC11_MIN_INTERVAL_MS == 15000
OSC11_MIN_INTERVAL_FLOOR_MS == 1000
OSC11_DISABLE_AFTER_FAILURES == 3
OSC11_DISABLE_COOLDOWN_MS == 60000
DEFAULT_POLL_MS == 8000
DEFAULT_OVERRIDE_MAX_AGE_MS == 60000

Null == "null"
Appearance == {"dark", "light"}

\* path.join(os.homedir(), ".pi", "agent", "system-theme-override.json"), with
\* ~ for the home directory.
DEFAULT_OVERRIDE_FILE == "~/.pi/agent/system-theme-override.json"

DEFAULT_CONFIG ==
    [darkTheme |-> "dark", lightTheme |-> "light", pollMs |-> DEFAULT_POLL_MS,
     overrideFile |-> DEFAULT_OVERRIDE_FILE,
     overrideMaxAgeMs |-> DEFAULT_OVERRIDE_MAX_AGE_MS]

\* ------------------------------------------------------------------------
\* Bounds of the model
\* ------------------------------------------------------------------------
\* Date.now() when the extension is constructed (any value far above the
\* intervals of the program; the state starts with timestamps 0).
StartTime == 120000
\* Time is explored up to StartTime + Horizon.
Horizon == 63000
\* Concurrently pending handlers (tasks suspended at an await).
MaxTasks == 2
\* Stimuli from outside in one run of the extension: lifecycle events,
\* commands, override files written from outside, themes picked by hand.
MaxOps == 2

\* The clock moves on a grid of a given period, with one point in between,
\* SubStep after each grid point: an amount of time shorter than the probe's
\* kill timeout and than the throttle interval.
SubStep == 3000

\* ------------------------------------------------------------------------
\* State
\* ------------------------------------------------------------------------
VARIABLES
    now,                \* Date.now()
    env,                \* process.env (the PI_SYSTEM_THEME_* variables)
    tty,                \* what the terminal on /dev/tty answers to an OSC 11 query
    ovFile,             \* content of config.overrideFile
    cfgFile,            \* content of GLOBAL_CONFIG_PATH
    ui,                 \* ctx: hasUI, theme registry, active theme name
    config,             \* let config
    osc11State,         \* const osc11State
    inFlight,           \* let inFlight
    lastAppliedTheme,   \* let lastAppliedTheme
    didWarnCustomTheme, \* let didWarnCustomTheme
    intervalId,         \* let intervalId: 0 (null) or the period of its timer
    liveTimers,         \* number of timers created and not yet cleared
    console,            \* the lines console.warn has written, as <<theme, message>>
    tasks,              \* bag of pending handlers, each suspended at an await
    ret,                \* the trace the engine returned in the last step
    event,              \* what the last step did (observation only)
    ops                 \* stimuli from outside so far

vars == <<now, env, tty, ovFile, cfgFile, ui, config, osc11State, inFlight,
          lastAppliedTheme, didWarnCustomTheme, intervalId, liveTimers, console,
          tasks, ret, event, ops>>

extVars == <<config, inFlight, lastAppliedTheme, didWarnCustomTheme,
             intervalId, liveTimers, console>>

\* A stimulus from outside is counted; every other step leaves the count.
Stimulus == ops < MaxOps /\ ops' = ops + 1
Inner == ops' = ops

\* ------------------------------------------------------------------------
\* Override file (strategy 1)
\* ------------------------------------------------------------------------
\* A file is missing, unreadable, not JSON, JSON but no object, or an object
\* with an appearance field (any value outside dark/light/auto is "bogus")
\* and an updatedAt field: absent (no string, or ""), garbage (a string
\* Date.parse rejects) or an ISO string for the time ms.
NonObjectKinds == {"missing", "unreadable", "notjson", "notobject"}

NoObject(k) == [kind |-> k, appearance |-> Null, stamp |-> "absent", ms |-> 0]

ObjectFile(a, s, t) == [kind |-> "object", appearance |-> a, stamp |-> s, ms |-> t]

\* Faulty variant: "light" is not recognised.
parseOverrideAppearance_NoLight(value) ==
    IF value = "dark" \/ value = "auto" THEN value ELSE Null

parseOverrideAppearance(value) ==
    IF value = "dark" \/ value = "light" \/ value = "auto" THEN value ELSE Null

\* Faulty variant: the age of the record is not tested.
readOverrideFile_NoExpiry(f, t, maxAgeMs) ==
    IF f.kind # "object" THEN Null
    ELSE LET appearance == parseOverrideAppearance(f.appearance) IN
         IF appearance = Null THEN Null
         ELSE IF maxAgeMs > 0
              THEN IF f.stamp # "iso" THEN Null ELSE appearance
              ELSE appearance

\* Faulty variant: updatedAt is required and tested whatever maxAgeMs is.
readOverrideFile_AlwaysAged(f, t, maxAgeMs) ==
    IF f.kind # "object" THEN Null
    ELSE LET appearance == parseOverrideAppearance(f.appearance) IN
         IF appearance = Null THEN Null
         ELSE IF f.stamp # "iso" \/ t - f.ms > maxAgeMs THEN Null
         ELSE appearance

\* Faulty variant: a record exactly maxAgeMs old is already stale (>= for >).
readOverrideFile_StrictAge(f, t, maxAgeMs) ==
    IF f.kind # "object" THEN Null
    ELSE LET appearance == parseOverrideAppearance(f.appearance) IN
         IF appearance = Null THEN Null
         ELSE IF maxAgeMs > 0
              THEN IF f.stamp = "absent" THEN Null
                   ELSE IF f.stamp # "iso" \/ t - f.ms >= maxAgeMs THEN Null
                   ELSE appearance
              ELSE appearance

readOverrideFile(f, t, maxAgeMs) ==
    IF f.kind # "object" THEN Null
    ELSE LET appearance == parseOverrideAppearance(f.appearance) IN
         IF appearance = Null THEN Null
         ELSE IF maxAgeMs > 0
              THEN IF f.stamp = "absent" THEN Null
                   ELSE IF f.stamp # "iso" \/ t - f.ms > maxAgeMs THEN Null
                   ELSE appearance
              ELSE appearance

\* ------------------------------------------------------------------------
\* Environment variables
\* ------------------------------------------------------------------------
\* A raw value is "unset", or a string: "0", "1", "false", "off", "abc", or a
\* decimal number written as ms:<n> is held as the record's num field.
EnvRaw(s, n) == [raw |-> s, num |-> n]
Unset == EnvRaw("unset", 0)

isOsc11EnabledOf(e) ==
    LET raw == IF e.OSC11_ENABLED.raw = "unset" THEN "1" ELSE e.OSC11_ENABLED.raw
    IN  raw # "0" /\ raw # "false" /\ raw # "off"

Max(a, b) == IF a >= b THEN a ELSE b

getOsc11MinIntervalMsOf(e) ==
    LET v == e.OSC11_MIN_INTERVAL_MS IN
    IF v.raw = "unset" \/ v.raw = "" THEN OSC11_MIN_INTERVAL_MS
    ELSE IF v.raw # "number" THEN OSC11_MIN_INTERVAL_MS
    ELSE Max(OSC11_MIN_INTERVAL_FLOOR_MS, v.num)

\* ------------------------------------------------------------------------
\* Resolution engine: resolveAppearanceWithTrace
\* ------------------------------------------------------------------------
InitialOsc11State ==
    [lastCheckedAt |-> 0, lastAppearance |-> Null, failures |-> 0, disabledUntil |-> 0]

NewTrace(st, e) ==
    [chosen |-> "none", appearance |-> Null, override |-> Null,
     osc11Enabled |-> isOsc11EnabledOf(e), osc11Attempted |-> FALSE,
     osc11Result |-> Null, osc11UsedCache |-> FALSE, osc11SkipReason |-> Null,
     osc11Failures |-> st.failures, osResult |-> Null]

IdleTask ==
    [kind |-> "idle", pc |-> "idle", allowOsc11 |-> FALSE, forceOsc11 |-> FALSE,
     maxAgeMs |-> 0, now |-> 0, trace |-> NewTrace(InitialOsc11State, [OSC11_ENABLED |-> Unset]),
     arg |-> Null, stampMs |-> 0, draft |-> DEFAULT_CONFIG]

\* Faulty variant: the call goes to the OS query at once.
CallResolve_OSFirst(kind, cfg, st, allow, force) ==
    [IdleTask EXCEPT !.kind = kind, !.pc = "os", !.allowOsc11 = allow,
                     !.forceOsc11 = force, !.maxAgeMs = cfg.overrideMaxAgeMs,
                     !.trace = NewTrace(st, env)]

\* The call itself: the trace is created and readOverrideFile is started with
\* config.overrideMaxAgeMs of the config passed in (lines 446-459).
CallResolve(kind, cfg, st, allow, force) ==
    [IdleTask EXCEPT !.kind = kind, !.pc = "override", !.allowOsc11 = allow,
                     !.forceOsc11 = force, !.maxAgeMs = cfg.overrideMaxAgeMs,
                     !.trace = NewTrace(st, env)]

\* options?.forceOsc11 === true; forceOsc11 || options?.allowOsc11 === true
allowOsc11Of(t) == t.forceOsc11 \/ t.allowOsc11

\* Faulty variant: forcing does not bypass the throttle.
canProbe_ForceThrottled(t, st, force, minIntervalMs) ==
    t >= st.disabledUntil /\ t - st.lastCheckedAt >= minIntervalMs

canProbe(t, st, force, minIntervalMs) ==
    t >= st.disabledUntil /\ (force \/ t - st.lastCheckedAt >= minIntervalMs)

\* Faulty variant: the cached probe value is not used.
CacheOrOS_NoCache(t, st, tr) ==
    [done |-> FALSE, st |-> st, task |-> [t EXCEPT !.pc = "os", !.trace = tr]]

\* Faulty variant: the cached value is used only while no failure is on
\* record.
CacheOrOS_FreshOnly(t, st, tr) ==
    IF st.lastAppearance # Null /\ st.failures = 0 /\ st.disabledUntil = 0
    THEN [done |-> TRUE, st |-> st,
          task |-> [t EXCEPT !.trace = [tr EXCEPT !.osc11UsedCache = TRUE,
                                                  !.chosen = "osc11-cache",
                                                  !.appearance = st.lastAppearance]]]
    ELSE [done |-> FALSE, st |-> st, task |-> [t EXCEPT !.pc = "os", !.trace = tr]]

\* Lines 503-508, and the hand-over to detectOSAppearance of line 513.
CacheOrOS(t, st, tr) ==
    IF st.lastAppearance # Null
    THEN [done |-> TRUE, st |-> st,
          task |-> [t EXCEPT !.trace = [tr EXCEPT !.osc11UsedCache = TRUE,
                                                  !.chosen = "osc11-cache",
                                                  !.appearance = st.lastAppearance]]]
    ELSE [done |-> FALSE, st |-> st, task |-> [t EXCEPT !.pc = "os", !.trace = tr]]

\* Faulty variant: a forced probe does not record its start.
StepOverride_ForcedNoStamp(t0, st, f, nowv, minIntervalMs) ==
    LET override == readOverrideFile(f, nowv, t0.maxAgeMs)
        t  == t0
        tr == [t.trace EXCEPT !.override = override]
    IN
    IF override = "dark" \/ override = "light"
    THEN [done |-> TRUE, st |-> st,
          task |-> [t EXCEPT !.trace = [tr EXCEPT !.chosen = "override", !.appearance = override]]]
    ELSE IF tr.osc11Enabled /\ allowOsc11Of(t)
    THEN IF canProbe(nowv, st, t.forceOsc11, minIntervalMs)
         THEN [done |-> FALSE,
               st |-> [st EXCEPT !.lastCheckedAt = IF t.forceOsc11 THEN @ ELSE nowv],
               task |-> [t EXCEPT !.pc = "probe", !.now = nowv,
                                  !.trace = [tr EXCEPT !.osc11Attempted = TRUE]]]
         ELSE IF nowv < st.disabledUntil
         THEN CacheOrOS(t, st, [tr EXCEPT !.osc11SkipReason = "cooldown-until"])
         ELSE CacheOrOS(t, st, [tr EXCEPT !.osc11SkipReason = "throttled"])
    ELSE [done |-> FALSE, st |-> st,
          task |-> [t EXCEPT !.pc = "os",
                             !.trace = [tr EXCEPT !.osc11SkipReason =
                                 IF tr.osc11Enabled THEN "disabled-by-mode" ELSE "disabled"]]]

\* Faulty variant: a call held back by the throttle records the time of its
\* check all the same.
StepOverride_SkipStamps(t0, st, f, nowv, minIntervalMs) ==
    LET override == readOverrideFile(f, nowv, t0.maxAgeMs)
        t  == t0
        tr == [t.trace EXCEPT !.override = override]
    IN
    IF override = "dark" \/ override = "light"
    THEN [done |-> TRUE, st |-> st,
          task |-> [t EXCEPT !.trace = [tr EXCEPT !.chosen = "override", !.appearance = override]]]
    ELSE IF tr.osc11Enabled /\ allowOsc11Of(t)
    THEN IF canProbe(nowv, st, t.forceOsc11, minIntervalMs)
         THEN [done |-> FALSE, st |-> [st EXCEPT !.lastCheckedAt = nowv],
               task |-> [t EXCEPT !.pc = "probe", !.now = nowv,
                                  !.trace = [tr EXCEPT !.osc11Attempted = TRUE]]]
         ELSE IF nowv < st.disabledUntil
         THEN CacheOrOS(t, st, [tr EXCEPT !.osc11SkipReason = "cooldown-until"])
         ELSE CacheOrOS(t, [st EXCEPT !.lastCheckedAt = nowv],
                        [tr EXCEPT !.osc11SkipReason = "throttled"])
    ELSE [done |-> FALSE, st |-> st,
          task |-> [t EXCEPT !.pc = "os",
                             !.trace = [tr EXCEPT !.osc11SkipReason =
                                 IF tr.osc11Enabled THEN "disabled-by-mode" ELSE "disabled"]]]

\* The override read has completed (lines 459-511 up to the next await).
StepOverride(t0, st, f, nowv, minIntervalMs) ==
    LET override == readOverrideFile(f, nowv, t0.maxAgeMs)
        t  == t0
        tr == [t.trace EXCEPT !.override = override]
    IN
    IF override = "dark" \/ override = "light"
    THEN [done |-> TRUE, st |-> st,
          task |-> [t EXCEPT !.trace = [tr EXCEPT !.chosen = "override", !.appearance = override]]]
    ELSE IF tr.osc11Enabled /\ allowOsc11Of(t)
    THEN IF canProbe(nowv, st, t.forceOsc11, minIntervalMs)
         THEN [done |-> FALSE, st |-> [st EXCEPT !.lastCheckedAt = nowv],
               task |-> [t EXCEPT !.pc = "probe", !.now = nowv,
                                  !.trace = [tr EXCEPT !.osc11Attempted = TRUE]]]
         ELSE IF nowv < st.disabledUntil
         THEN CacheOrOS(t, st, [tr EXCEPT !.osc11SkipReason = "cooldown-until"])
         ELSE CacheOrOS(t, st, [tr EXCEPT !.osc11SkipReason = "throttled"])
    ELSE [done |-> FALSE, st |-> st,
          task |-> [t EXCEPT !.pc = "os",
                             !.trace = [tr EXCEPT !.osc11SkipReason =
                                 IF tr.osc11Enabled THEN "disabled-by-mode" ELSE "disabled"]]]

\* Faulty variant: the breaker opens one failure late (> for >=).
StepProbe_LateBreaker(t, st, fromTerminal) ==
    LET tr == [t.trace EXCEPT !.osc11Result = fromTerminal] IN
    IF fromTerminal # Null
    THEN [done |-> TRUE,
          st |-> [st EXCEPT !.lastAppearance = fromTerminal, !.failures = 0],
          task |-> [t EXCEPT !.trace = [tr EXCEPT !.osc11Failures = 0, !.chosen = "osc11",
                                                  !.appearance = fromTerminal]]]
    ELSE LET failures == st.failures + 1 IN
         IF failures > OSC11_DISABLE_AFTER_FAILURES
         THEN CacheOrOS(t,
                  [st EXCEPT !.disabledUntil = t.now + OSC11_DISABLE_COOLDOWN_MS, !.failures = 0],
                  [tr EXCEPT !.osc11Failures = 0, !.osc11SkipReason = "cooldown"])
         ELSE CacheOrOS(t, [st EXCEPT !.failures = failures],
                        [tr EXCEPT !.osc11Failures = failures])

\* Faulty variant: the failure that opens the breaker leaves the counter as
\* it is.
StepProbe_KeepsCount(t, st, fromTerminal) ==
    LET tr == [t.trace EXCEPT !.osc11Result = fromTerminal] IN
    IF fromTerminal # Null
    THEN [done |-> TRUE,
          st |-> [st EXCEPT !.lastAppearance = fromTerminal, !.failures = 0],
          task |-> [t EXCEPT !.trace = [tr EXCEPT !.osc11Failures = 0, !.chosen = "osc11",
                                                  !.appearance = fromTerminal]]]
    ELSE LET failures == st.failures + 1 IN
         IF failures >= OSC11_DISABLE_AFTER_FAILURES
         THEN CacheOrOS(t,
                  [st EXCEPT !.disabledUntil = t.now + OSC11_DISABLE_COOLDOWN_MS,
                             !.failures = failures],
                  [tr EXCEPT !.osc11Failures = failures, !.osc11SkipReason = "cooldown"])
         ELSE CacheOrOS(t, [st EXCEPT !.failures = failures],
                        [tr EXCEPT !.osc11Failures = failures])

\* Faulty variant: a probe without an answer ends the call with no decision
\* (neither the cached value nor the OS query is consulted).
StepProbe_NoHandOver(t, st, fromTerminal) ==
    LET tr == [t.trace EXCEPT !.osc11Result = fromTerminal] IN
    IF fromTerminal # Null
    THEN [done |-> TRUE,
          st |-> [st EXCEPT !.lastAppearance = fromTerminal, !.failures = 0],
          task |-> [t EXCEPT !.trace = [tr EXCEPT !.osc11Failures = 0, !.chosen = "osc11",
                                                  !.appearance = fromTerminal]]]
    ELSE [done |-> TRUE, st |-> [st EXCEPT !.failures = (@ + 1) % OSC11_DISABLE_AFTER_FAILURES],
          task |-> [t EXCEPT !.trace = tr]]

\* queryTerminalBackground has completed with fromTerminal (lines 479-508).
StepProbe(t, st, fromTerminal) ==
    LET tr == [t.trace EXCEPT !.osc11Result = fromTerminal] IN
    IF fromTerminal # Null
    THEN [done |-> TRUE,
          st |-> [st EXCEPT !.lastAppearance = fromTerminal, !.failures = 0],
          task |-> [t EXCEPT !.trace = [tr EXCEPT !.osc11Failures = 0, !.chosen = "osc11",
                                                  !.appearance = fromTerminal]]]
    ELSE LET failures == st.failures + 1 IN
         IF failures >= OSC11_DISABLE_AFTER_FAILURES
         THEN CacheOrOS(t,
                  [st EXCEPT !.disabledUntil = t.now + OSC11_DISABLE_COOLDOWN_MS, !.failures = 0],
                  [tr EXCEPT !.osc11Failures = 0, !.osc11SkipReason = "cooldown"])
         ELSE CacheOrOS(t, [st EXCEPT !.failures = failures],
                        [tr EXCEPT !.osc11Failures = failures])

\* Faulty variant: the OS is named as the source whatever it answered.
StepOS_AlwaysChosen(t, st, fromOS) ==
    [done |-> TRUE, st |-> st,
     task |-> [t EXCEPT !.trace = [t.trace EXCEPT !.osResult = fromOS,
                  !.chosen = "os",
                  !.appearance = IF fromOS # Null THEN fromOS ELSE @]]]

\* detectOSAppearance has completed with fromOS (lines 513-520).
StepOS(t, st, fromOS) ==
    [done |-> TRUE, st |-> st,
     task |-> [t EXCEPT !.trace = [t.trace EXCEPT !.osResult = fromOS,
                  !.chosen = IF fromOS # Null THEN "os" ELSE @,
                  !.appearance = IF fromOS # Null THEN fromOS ELSE @]]]

Returned(t) ==
    [kind |-> t.kind, allowOsc11 |-> t.allowOsc11, forceOsc11 |-> t.forceOsc11,
     maxAgeMs |-> t.maxAgeMs, now |-> t.now, trace |-> t.trace]

NoRet == Returned(IdleTask)


\* ------------------------------------------------------------------------
\* Settings file: loadConfig / saveConfig
\* ------------------------------------------------------------------------
\* The settings file is missing/corrupt ("none") or an object whose keys are
\* absent (Null / 0) or hold a value.  pollMs 0 stands for "no finite number".
NoCfgFile == [kind |-> "none", darkTheme |-> Null, lightTheme |-> Null, pollMs |-> 0]

toThemeName(value, fallback) == IF value = Null \/ value = "" THEN fallback ELSE value

toPollMs(value, fallback) == IF value = 0 THEN fallback ELSE Max(MIN_POLL_MS, value)

\* String.prototype.trim on the values an environment variable takes here.
trim(s) ==
    CASE s = "   " -> ""
      [] s = " /tmp/override.json " -> "/tmp/override.json"
      [] OTHER -> s

loadConfig(f, e) ==
    LET base == IF f.kind = "object"
                THEN [DEFAULT_CONFIG EXCEPT
                        !.darkTheme = toThemeName(f.darkTheme, DEFAULT_CONFIG.darkTheme),
                        !.lightTheme = toThemeName(f.lightTheme, DEFAULT_CONFIG.lightTheme),
                        !.pollMs = toPollMs(f.pollMs, DEFAULT_CONFIG.pollMs)]
                ELSE DEFAULT_CONFIG
        envFile == e.OVERRIDE_FILE
        named == IF envFile # Unset /\ trim(envFile.raw) # ""
                 THEN [base EXCEPT !.overrideFile = trim(envFile.raw)]
                 ELSE base
        v == e.OVERRIDE_MAX_AGE_MS
    IN  IF v.raw = "number" THEN [named EXCEPT !.overrideMaxAgeMs = Max(0, v.num)] ELSE named

\* What saveConfig leaves on disk when it succeeds: only the keys that differ
\* from the defaults; no file at all when none differs.
saveConfig(cfg) ==
    LET d == IF cfg.darkTheme # DEFAULT_CONFIG.darkTheme THEN cfg.darkTheme ELSE Null
        l == IF cfg.lightTheme # DEFAULT_CONFIG.lightTheme THEN cfg.lightTheme ELSE Null
        p == IF cfg.pollMs # DEFAULT_CONFIG.pollMs THEN cfg.pollMs ELSE 0
    IN  IF d = Null /\ l = Null /\ p = 0 THEN NoCfgFile
        ELSE [kind |-> "object", darkTheme |-> d, lightTheme |-> l, pollMs |-> p]

\* ------------------------------------------------------------------------
\* Extension state threaded through the synchronous part of a handler
\* ------------------------------------------------------------------------
NullTheme == [tag |-> "null", theme |-> "", msg |-> ""]
Applied(target) == [tag |-> "ok", theme |-> target, msg |-> ""]
ErrApplied(target, msg) == [tag |-> "err", theme |-> target, msg |-> msg]

Ext ==
    [config |-> config, inFlight |-> inFlight, lastAppliedTheme |-> lastAppliedTheme,
     didWarnCustomTheme |-> didWarnCustomTheme, intervalId |-> intervalId,
     liveTimers |-> liveTimers, console |-> console, theme |-> ui.theme, setTheme |-> Null,
     result |-> Null, thrown |-> FALSE, notes |-> <<>>]

Event(op, kind, x) ==
    [op |-> op, kind |-> kind, setTheme |-> x.setTheme, result |-> x.result,
     thrown |-> x.thrown, notes |-> x.notes]

Commit(x) ==
    /\ config' = x.config
    /\ inFlight' = x.inFlight
    /\ lastAppliedTheme' = x.lastAppliedTheme
    /\ didWarnCustomTheme' = x.didWarnCustomTheme
    /\ intervalId' = x.intervalId
    /\ liveTimers' = x.liveTimers
    /\ console' = x.console
    /\ ui' = [ui EXCEPT !.theme = x.theme]

isDefaultThemeName(name) ==
    name = DEFAULT_CONFIG.darkTheme \/ name = DEFAULT_CONFIG.lightTheme

canManageThemes == ui.hasUI /\ ui.themes

hasThemeOverrides(x) ==
    x.config.darkTheme # DEFAULT_CONFIG.darkTheme \/ x.config.lightTheme # DEFAULT_CONFIG.lightTheme

\* Faulty variant: the active theme's name is not looked at.
shouldAutoSync_AnyTheme(x) == canManageThemes

shouldAutoSync(x) ==
    IF ~canManageThemes THEN FALSE
    ELSE IF hasThemeOverrides(x) THEN TRUE
    ELSE isDefaultThemeName(x.theme)

maybeWarnCustomTheme(x) ==
    IF x.didWarnCustomTheme \/ ~canManageThemes \/ hasThemeOverrides(x) THEN x
    ELSE IF isDefaultThemeName(x.theme) THEN x
    ELSE [x EXCEPT !.didWarnCustomTheme = TRUE, !.notes = Append(@, "info:custom-theme")]

\* Faulty variant: the previous timer is not cleared before a new one is
\* created.
restartPolling_NoClear(x) ==
    IF ~shouldAutoSync(x) THEN x
    ELSE [x EXCEPT !.intervalId = x.config.pollMs, !.liveTimers = @ + 1]

restartPolling(x) ==
    LET c == IF x.intervalId # 0
             THEN [x EXCEPT !.intervalId = 0, !.liveTimers = @ - 1]
             ELSE x
    IN  IF ~shouldAutoSync(c) THEN c
        ELSE [c EXCEPT !.intervalId = c.config.pollMs, !.liveTimers = @ + 1]

\* Faulty variant: the probe state is left as it is.
resetOsc11State_Keeps == osc11State

resetOsc11State == InitialOsc11State

\* The outcomes of ctx.ui.setTheme: success, failure with an error message
\* ("undefined": without one), or an exception.
SetThemeResults == {"ok", "e1", "throw"}

TargetTheme(x, appearance) ==
    IF appearance = "dark" THEN x.config.darkTheme ELSE x.config.lightTheme

\* Faulty variant: the in-flight guard is missing.
tickDropped_NoGuard(x) == ~shouldAutoSync(x)

\* tick, lines 593-594: the tick is dropped.
tickDropped(x) == ~shouldAutoSync(x) \/ x.inFlight

\* Faulty variant: the theme is left alone as soon as the active theme or
\* the last applied one equals the target (|| for &&).
tickApply_EitherMatches(x, appearance, sres) ==
    LET fin == [x EXCEPT !.inFlight = FALSE] IN
    IF appearance = Null THEN fin
    ELSE LET targetTheme == TargetTheme(x, appearance) IN
         IF x.theme = targetTheme \/ x.lastAppliedTheme = Applied(targetTheme) THEN fin
         ELSE LET called == [fin EXCEPT !.setTheme = targetTheme, !.result = sres] IN
              IF sres = "throw" THEN [called EXCEPT !.thrown = TRUE]
              ELSE IF sres = "ok"
              THEN [called EXCEPT !.theme = targetTheme, !.lastAppliedTheme = Applied(targetTheme)]
              ELSE LET msg == IF sres = "undefined" THEN "unknown" ELSE sres IN
                   IF x.lastAppliedTheme # ErrApplied(targetTheme, msg)
                   THEN [called EXCEPT !.lastAppliedTheme = ErrApplied(targetTheme, msg),
                                       !.console = @ \cup {<<targetTheme, msg>>},
                                       !.notes = Append(@, "warn:setTheme")]
                   ELSE called

\* Faulty variant: no appearance is taken for light (the early return of
\* line 598 is missing).
tickApply_NoneIsLight(x, appearance, sres) ==
    LET fin == [x EXCEPT !.inFlight = FALSE]
        targetTheme == TargetTheme(x, appearance)
    IN  IF x.theme = targetTheme /\ x.lastAppliedTheme = Applied(targetTheme) THEN fin
        ELSE LET called == [fin EXCEPT !.setTheme = targetTheme, !.result = sres] IN
             IF sres = "throw" THEN [called EXCEPT !.thrown = TRUE]
             ELSE IF sres = "ok"
             THEN [called EXCEPT !.theme = targetTheme, !.lastAppliedTheme = Applied(targetTheme)]
             ELSE LET msg == IF sres = "undefined" THEN "unknown" ELSE sres IN
                  IF x.lastAppliedTheme # ErrApplied(targetTheme, msg)
                  THEN [called EXCEPT !.lastAppliedTheme = ErrApplied(targetTheme, msg),
                                      !.console = @ \cup {<<targetTheme, msg>>},
                                      !.notes = Append(@, "warn:setTheme")]
                  ELSE called

\* tick, lines 598-615: what follows the awaited resolution.
\* Faulty variant: no finally; a throwing setTheme leaves inFlight set.
tickApply_NoFinally(x, appearance, sres) ==
    LET fin == [x EXCEPT !.inFlight = FALSE] IN
    IF appearance = Null THEN fin
    ELSE LET targetTheme == TargetTheme(x, appearance) IN
         IF x.theme = targetTheme /\ x.lastAppliedTheme = Applied(targetTheme) THEN fin
         ELSE LET called == [fin EXCEPT !.setTheme = targetTheme, !.result = sres] IN
              IF sres = "throw" THEN [called EXCEPT !.thrown = TRUE, !.inFlight = TRUE]
              ELSE IF sres = "ok"
              THEN [called EXCEPT !.theme = targetTheme, !.lastAppliedTheme = Applied(targetTheme)]
              ELSE LET msg == IF sres = "undefined" THEN "unknown" ELSE sres IN
                   IF x.lastAppliedTheme # ErrApplied(targetTheme, msg)
                   THEN [called EXCEPT !.lastAppliedTheme = ErrApplied(targetTheme, msg),
                                       !.console = @ \cup {<<targetTheme, msg>>},
                                       !.notes = Append(@, "warn:setTheme")]
                   ELSE called

tickApply(x, appearance, sres) ==
    LET fin == [x EXCEPT !.inFlight = FALSE] IN
    IF appearance = Null THEN fin
    ELSE LET targetTheme == TargetTheme(x, appearance) IN
         IF x.theme = targetTheme /\ x.lastAppliedTheme = Applied(targetTheme) THEN fin
         ELSE LET called == [fin EXCEPT !.setTheme = targetTheme, !.result = sres] IN
              IF sres = "throw" THEN [called EXCEPT !.thrown = TRUE]
              ELSE IF sres = "ok"
              THEN [called EXCEPT !.theme = targetTheme, !.lastAppliedTheme = Applied(targetTheme)]
              ELSE LET msg == IF sres = "undefined" THEN "unknown" ELSE sres IN
                   IF x.lastAppliedTheme # ErrApplied(targetTheme, msg)
                   THEN [called EXCEPT !.lastAppliedTheme = ErrApplied(targetTheme, msg),
                                       !.console = @ \cup {<<targetTheme, msg>>},
                                       !.notes = Append(@, "warn:setTheme")]
                   ELSE called

\* system-theme-refresh, lines 703-718: what follows the awaited resolution.
refreshApply(x, appearance, sres) ==
    IF appearance = Null THEN [x EXCEPT !.notes = Append(@, "warning:refresh-failed")]
    ELSE LET targetTheme == TargetTheme(x, appearance)
             called == [x EXCEPT !.setTheme = targetTheme, !.result = sres]
         IN  IF sres = "throw" THEN [called EXCEPT !.thrown = TRUE]
             ELSE IF sres # "ok" THEN [called EXCEPT !.notes = Append(@, "error:refresh-failed")]
             ELSE LET r == restartPolling([called EXCEPT !.theme = targetTheme,
                                                         !.lastAppliedTheme = Applied(targetTheme)])
                  IN  [r EXCEPT !.notes = Append(@, "info:refreshed")]

\* What the caller of the resolution does when it returns, by kind of caller.
AfterResolve(kind, x, appearance, sres) ==
    CASE kind = "direct" -> x
      [] kind = "debug" -> [x EXCEPT !.notes = Append(@, "info:trace")]
      [] kind = "refresh" -> refreshApply(x, appearance, sres)
      [] kind \in {"timer", "push"} -> tickApply(x, appearance, sres)
      [] kind = "enter" ->
            LET a == tickApply(x, appearance, sres) IN
            IF a.thrown THEN a ELSE restartPolling(a)
      [] kind = "settings" ->
            LET a == tickApply(x, appearance, sres) IN
            IF a.thrown THEN a ELSE maybeWarnCustomTheme(restartPolling(a))


\* ------------------------------------------------------------------------
\* Initial state: systemThemeBridge(pi) has run (lines 555-565)
\* ------------------------------------------------------------------------
\* OS_FALLBACK is the opt-in variable of the README's table (default 0); it
\* is left at its default, and no line of index.ts reads it.
EnvOf(enabled, minInterval, maxAge) ==
    [OSC11_ENABLED |-> enabled, OSC11_MIN_INTERVAL_MS |-> minInterval,
     OVERRIDE_MAX_AGE_MS |-> maxAge, OVERRIDE_FILE |-> Unset, OS_FALLBACK |-> Unset]

ThemeNames == {"dark", "light", "solar"}

UIChoices ==
    {[hasUI |-> FALSE, themes |-> FALSE, theme |-> "dark"],
     [hasUI |-> TRUE, themes |-> FALSE, theme |-> "dark"],
     [hasUI |-> TRUE, themes |-> TRUE, theme |-> "dark"]}

NoEvent ==
    [op |-> "init", kind |-> "idle", setTheme |-> Null, result |-> Null,
     thrown |-> FALSE, notes |-> <<>>]

\* The terminal does not answer the query.
NoReply == [kind |-> "none", r |-> <<>>, g |-> <<>>, b |-> <<>>, cuts |-> {}]

InitWith(envs, uis, cfgFiles, ovFiles) ==
    /\ now = StartTime
    /\ env \in envs
    /\ tty = NoReply
    /\ ovFile \in ovFiles
    /\ cfgFile \in cfgFiles
    /\ ui \in uis
    /\ config = DEFAULT_CONFIG
    /\ osc11State = InitialOsc11State
    /\ inFlight = FALSE
    /\ lastAppliedTheme = NullTheme
    /\ didWarnCustomTheme = FALSE
    /\ intervalId = 0
    /\ liveTimers = 0
    /\ console = {}
    /\ tasks = EmptyBag
    /\ ret = NoRet
    /\ event = NoEvent
    /\ ops = 0

Init ==
    InitWith({EnvOf(en, Unset, Unset) : en \in {Unset, EnvRaw("0", 0)}}, UIChoices,
             {NoCfgFile}, {NoObject("missing")})

\* ------------------------------------------------------------------------
\* Steps of a pending resolution
\* ------------------------------------------------------------------------
Pending == BagToSet(tasks)

\* A handler starts and suspends at its first await as t.
Spawn(t) ==
    /\ BagCardinality(tasks) < MaxTasks
    /\ tasks' = tasks (+) SetToBag({t})

\* The pending handler t has run to its end.
Finish(t) == tasks' = tasks (-) SetToBag({t})

\* The pending handler t goes on to its next await as u.
Replace(t, u) == tasks' = (tasks (-) SetToBag({t})) (+) SetToBag({u})

\* ret and event describe the last step only.
Quiet == ret' = NoRet /\ event' = NoEvent

\* The resolution of the pending handler h returns as t: its caller goes on
\* in the same step, and where it calls setTheme, setTheme answers one of its
\* outcomes.
Return(h, t) ==
    LET x0 == AfterResolve(t.kind, Ext, t.trace.appearance, "ok") IN
    /\ \E sres \in (IF x0.setTheme = Null THEN {"ok"} ELSE SetThemeResults) :
         LET x == AfterResolve(t.kind, Ext, t.trace.appearance, sres) IN
         /\ Commit(x)
         /\ event' = Event("return", t.kind, x)
    /\ Finish(h)
    /\ ret' = Returned(t)

\* Faulty variant: a record the reader has found stale is removed.
Proceed_DropsStale(h, o) ==
    /\ osc11State' = o.st
    /\ IF o.done
       THEN Return(h, o.task)
       ELSE /\ Replace(h, o.task)
            /\ Quiet
            /\ UNCHANGED <<extVars, ui>>
    /\ ovFile' = IF h.pc = "override" /\ ovFile.kind = "object" /\ o.task.trace.override = Null
                 THEN NoObject("missing") ELSE ovFile
    /\ UNCHANGED <<now, env, tty, cfgFile, ops>>

\* The resolution of the pending handler h goes on with outcome o.
Proceed(h, o) ==
    /\ osc11State' = o.st
    /\ IF o.done
       THEN Return(h, o.task)
       ELSE /\ Replace(h, o.task)
            /\ Quiet
            /\ UNCHANGED <<extVars, ui>>
    /\ UNCHANGED <<now, env, tty, ovFile, cfgFile, ops>>

OverrideRead(h) ==
    /\ h.pc = "override"
    /\ Proceed(h, StepOverride(h, osc11State, ovFile, now, getOsc11MinIntervalMsOf(env)))

ProbeDone(h) ==
    /\ h.pc = "probe"
    /\ \E fromTerminal \in Appearance \cup {Null} :
         Proceed(h, StepProbe(h, osc11State, fromTerminal))

OSDone(h) ==
    /\ h.pc = "os"
    /\ \E fromOS \in Appearance \cup {Null} :
         Proceed(h, StepOS(h, osc11State, fromOS))

\* ------------------------------------------------------------------------
\* The world: clock, override file written from outside, theme picked by hand
\* ------------------------------------------------------------------------
\* File reads and writes and the OS queries (each bounded by
\* DETECTION_TIMEOUT_MS) finish before the clock moves on; a probe is killed
\* OSC11_QUERY_TIMEOUT_MS + 300 after it started; a settings menu waits for
\* the user as long as it takes.
MayPass(t, d) ==
    \/ t.pc = "menu"
    \/ t.pc = "probe" /\ (now + d) - t.now <= OSC11_QUERY_TIMEOUT_MS + OSC11_KILL_MARGIN_MS

OnGrid(t, period) == (t - StartTime) % period = 0

Pass(d) ==
    /\ now + d <= StartTime + Horizon
    /\ \A t \in Pending : MayPass(t, d)
    /\ now' = now + d
    /\ Quiet
    /\ UNCHANGED <<env, tty, ovFile, cfgFile, ui, extVars, osc11State, tasks>>

AdvanceOn(period) ==
    IF OnGrid(now, period) THEN Pass(SubStep) \/ Pass(period) ELSE Pass(period - SubStep)

\* push-theme-override.sh: appearance of the pushing machine, updatedAt with
\* the precision of a second.
PushScriptFile(a, t) == ObjectFile(a, "iso", (t \div 1000) * 1000)

WriteFrom(files) ==
    \E f \in files :
        /\ f # ovFile
        /\ ovFile' = f
        /\ Quiet
        /\ UNCHANGED <<now, env, tty, cfgFile, ui, extVars, osc11State, tasks>>

\* ------------------------------------------------------------------------
\* The engine called directly, one call at a time, with any options
\* ------------------------------------------------------------------------
\* config.overrideMaxAgeMs of the config passed in: the default, or 0 (the
\* override never expires).
EngineMaxAges == {DEFAULT_OVERRIDE_MAX_AGE_MS, 0}

DirectCall ==
    \E allow \in BOOLEAN, force \in BOOLEAN, maxAgeMs \in EngineMaxAges :
        /\ tasks = EmptyBag
        /\ Spawn(CallResolve("direct", [config EXCEPT !.overrideMaxAgeMs = maxAgeMs],
                             osc11State, allow, force))
        /\ Quiet
        /\ UNCHANGED <<now, env, tty, ovFile, cfgFile, ui, extVars, osc11State, ops>>

FullUI == [hasUI |-> TRUE, themes |-> TRUE, theme |-> "dark"]

InitEngine ==
    InitWith({EnvOf(en, Unset, Unset) : en \in {Unset, EnvRaw("off", 0)}}, {FullUI},
             {NoCfgFile}, {NoObject("missing")})

EngineGrid == OSC11_MIN_INTERVAL_MS

AdvanceEngine == AdvanceOn(EngineGrid) /\ Inner

EngineFiles ==
    {NoObject("missing"), ObjectFile("auto", "iso", now), ObjectFile("light", "garbage", 0)}
    \cup (IF OnGrid(now, EngineGrid) THEN {PushScriptFile("dark", now)} ELSE {})

ExternalWriteEngine == WriteFrom(EngineFiles) /\ Inner

NextEngine ==
    \/ DirectCall
    \/ \E h \in Pending : OverrideRead(h)
    \/ \E h \in Pending : ProbeDone(h)
    \/ \E h \in Pending : OSDone(h)
    \/ AdvanceEngine
    \/ ExternalWriteEngine

SpecEngine == InitEngine /\ [][NextEngine]_vars

\* ------------------------------------------------------------------------
\* readOverrideFile alone: one file, one clock value, every kind of content
\* ------------------------------------------------------------------------
\* updatedAt around the freshness limit of the default max age, and ahead of
\* the reader's clock.
ReadStamps ==
    {StartTime - DEFAULT_OVERRIDE_MAX_AGE_MS - 1, StartTime - DEFAULT_OVERRIDE_MAX_AGE_MS,
     StartTime, StartTime + MIN_POLL_MS}

ReadFiles ==
    {NoObject(k) : k \in NonObjectKinds}
    \cup {ObjectFile(a, s, 0) : a \in {"dark", "light", "auto", "bogus"}, s \in {"absent", "garbage"}}
    \cup {ObjectFile(a, "iso", t) : a \in {"dark", "light", "auto", "bogus"}, t \in ReadStamps}

InitRead == InitWith({EnvOf(Unset, Unset, Unset)}, {FullUI}, {NoCfgFile}, ReadFiles)

NextRead ==
    \/ DirectCall
    \/ \E h \in Pending : OverrideRead(h)
    \/ \E h \in Pending : ProbeDone(h)
    \/ \E h \in Pending : OSDone(h)

SpecRead == InitRead /\ [][NextRead]_vars


\* ------------------------------------------------------------------------
\* The extension: timer, lifecycle events, commands
\* ------------------------------------------------------------------------
SettingsAfterTick(x) == maybeWarnCustomTheme(restartPolling(x))

\* What the caller of tick does when its tick was dropped, by kind of caller.
AfterDropped(kind, x) ==
    CASE kind = "enter" -> restartPolling(x)
      [] kind = "settings" -> SettingsAfterTick(x)
      [] OTHER -> x

\* tick(ctx, options) called by the pending handler h of the given kind
\* (IdleTask: the caller was not pending, it is the timer's callback).  When
\* the tick is dropped the handler goes on with x at once; otherwise the
\* resolution is started under inFlight.
StartTick(h, kind, x, st, allow, force, op) ==
    IF tickDropped(x)
    THEN LET y == AfterDropped(kind, x) IN
         /\ Commit(y)
         /\ IF h = IdleTask THEN UNCHANGED tasks ELSE Finish(h)
         /\ ret' = NoRet
         /\ event' = Event(op, kind, y)
    ELSE LET t == CallResolve(kind, x.config, st, allow, force) IN
         /\ Commit([x EXCEPT !.inFlight = TRUE])
         /\ IF h = IdleTask THEN Spawn(t) ELSE Replace(h, t)
         /\ Quiet

\* Faulty variant: the timer's tick allows the probe.
TimerFire_AllowProbe ==
    /\ liveTimers > 0
    /\ Inner
    /\ StartTick(IdleTask, "timer", Ext, osc11State, TRUE, FALSE,
                 IF inFlight THEN "tick-dropped" ELSE "tick-off")
    /\ UNCHANGED <<now, env, tty, ovFile, cfgFile, osc11State>>

\* setInterval(() => void tick(ctx), config.pollMs) fires.
TimerFire ==
    /\ liveTimers > 0
    /\ Inner
    /\ StartTick(IdleTask, "timer", Ext, osc11State, FALSE, FALSE,
                 IF inFlight THEN "tick-dropped" ELSE "tick-off")
    /\ UNCHANGED <<now, env, tty, ovFile, cfgFile, osc11State>>

\* session_start / session_switch: applyOnSessionEnter awaits loadConfig.
SessionEnter ==
    /\ Stimulus
    /\ Spawn([IdleTask EXCEPT !.kind = "enter", !.pc = "loadcfg"])
    /\ Quiet
    /\ UNCHANGED <<now, env, tty, ovFile, cfgFile, ui, extVars, osc11State>>

CmdRefresh ==
    /\ Stimulus
    /\ IF ~canManageThemes
       THEN /\ event' = Event("refresh-refused", "refresh",
                   [Ext EXCEPT !.notes = IF ui.hasUI THEN <<"info:requires-themes">> ELSE <<>>])
            /\ ret' = NoRet
            /\ UNCHANGED tasks
       ELSE /\ Spawn([IdleTask EXCEPT !.kind = "refresh", !.pc = "loadcfg"])
            /\ Quiet
    /\ UNCHANGED <<now, env, tty, ovFile, cfgFile, ui, extVars, osc11State>>

CmdDebug ==
    /\ Stimulus
    /\ IF ~ui.hasUI
       THEN /\ event' = Event("debug-refused", "debug", Ext)
            /\ ret' = NoRet
            /\ UNCHANGED tasks
       ELSE /\ Spawn([IdleTask EXCEPT !.kind = "debug", !.pc = "loadcfg"])
            /\ Quiet
    /\ UNCHANGED <<now, env, tty, ovFile, cfgFile, ui, extVars, osc11State>>

\* loadConfig has completed in applyOnSessionEnter (794-805), in the refresh
\* command (699-702) or in the debug command (729-730).
ConfigLoaded(h) ==
    /\ Inner
    /\ h.pc = "loadcfg"
    /\ LET x == [Ext EXCEPT !.config = loadConfig(cfgFile, env)] IN
       CASE h.kind = "enter" ->
              /\ osc11State' = resetOsc11State
              /\ IF ~shouldAutoSync(x)
                 THEN LET y == maybeWarnCustomTheme(x) IN
                      /\ Commit(y)
                      /\ Finish(h)
                      /\ ret' = NoRet
                      /\ event' = Event("enter-off", "enter", y)
                 ELSE StartTick(h, "enter", x, resetOsc11State, TRUE, TRUE,
                                "enter-tick-dropped")
         [] h.kind = "refresh" ->
              /\ osc11State' = resetOsc11State
              /\ Commit(x)
              /\ Replace(h, CallResolve("refresh", x.config, resetOsc11State, FALSE, TRUE))
              /\ Quiet
         [] h.kind = "debug" ->
              /\ Commit(x)
              /\ Replace(h, CallResolve("debug", x.config, osc11State, FALSE, TRUE))
              /\ Quiet
              /\ UNCHANGED osc11State
    /\ UNCHANGED <<now, env, tty, ovFile, cfgFile>>

\* system-theme-push <arg>: the payload is built, then mkdir and writeFile
\* are awaited (one step).
PushArgs == {"dark", "auto", "bogus"}

CmdPush ==
    \E a \in PushArgs :
        /\ Stimulus
        /\ IF parseOverrideAppearance(a) = Null
           THEN /\ event' = Event("push-usage", "push",
                       [Ext EXCEPT !.notes = IF ui.hasUI THEN <<"warning:usage">> ELSE <<>>])
                /\ ret' = NoRet
                /\ UNCHANGED tasks
           ELSE /\ Spawn([IdleTask EXCEPT !.kind = "push", !.pc = "write",
                                          !.arg = a, !.stampMs = now])
                /\ Quiet
        /\ UNCHANGED <<now, env, tty, ovFile, cfgFile, ui, extVars, osc11State>>

\* new Date(ms).toISOString(): date and time to the second, and the
\* milliseconds as three digits; Date.parse reads both back.
toISOString(ms) == [seconds |-> ms \div 1000, millis |-> ms % 1000]

DateParse(iso) == iso.seconds * 1000 + iso.millis

PushWritten(h) ==
    /\ Inner
    /\ h.pc = "write"
    /\ \E ok \in BOOLEAN :
         IF ok
         THEN /\ ovFile' = ObjectFile(h.arg, "iso", DateParse(toISOString(h.stampMs)))
              /\ StartTick(h, "push",
                           [Ext EXCEPT !.notes = IF ui.hasUI THEN <<"info:override-written">> ELSE <<>>],
                           osc11State, FALSE, FALSE, "push-tick-dropped")
         ELSE /\ Finish(h)
              /\ event' = Event("push-failed", "push", [Ext EXCEPT !.thrown = TRUE])
              /\ ret' = NoRet
              /\ UNCHANGED <<ovFile, ui, extVars>>
    /\ UNCHANGED <<now, env, tty, cfgFile, osc11State>>

\* system-theme: the menu loop over a draft of the configuration.
DraftChoices ==
    {[darkTheme |-> "dark", lightTheme |-> "light", pollMs |-> DEFAULT_POLL_MS],
     [darkTheme |-> "nord", lightTheme |-> "light", pollMs |-> MIN_POLL_MS]}

DraftOf(cfg) == [darkTheme |-> cfg.darkTheme, lightTheme |-> cfg.lightTheme, pollMs |-> cfg.pollMs]

MergeDraft(cfg, d) ==
    [cfg EXCEPT !.darkTheme = d.darkTheme, !.lightTheme = d.lightTheme, !.pollMs = d.pollMs]

CmdSettings ==
    /\ Stimulus
    /\ IF ~canManageThemes
       THEN /\ event' = Event("settings-refused", "settings",
                   [Ext EXCEPT !.notes = IF ui.hasUI THEN <<"info:requires-themes">> ELSE <<>>])
            /\ ret' = NoRet
            /\ UNCHANGED tasks
       ELSE /\ Spawn([IdleTask EXCEPT !.kind = "settings", !.pc = "menu",
                                      !.draft = MergeDraft(DEFAULT_CONFIG, DraftOf(config))])
            /\ Quiet
    /\ UNCHANGED <<now, env, tty, ovFile, cfgFile, ui, extVars, osc11State>>

SettingsEdit(h) ==
    /\ Inner
    /\ h.pc = "menu"
    /\ \E d \in DraftChoices :
         /\ DraftOf(h.draft) # d
         /\ Replace(h, [h EXCEPT !.draft = MergeDraft(DEFAULT_CONFIG, d)])
    /\ Quiet
    /\ UNCHANGED <<now, env, tty, ovFile, cfgFile, ui, extVars, osc11State>>

SettingsCancel(h) ==
    /\ Inner
    /\ h.pc = "menu"
    /\ Finish(h)
    /\ event' = Event("settings-cancel", "settings", Ext)
    /\ ret' = NoRet
    /\ UNCHANGED <<now, env, tty, ovFile, cfgFile, ui, extVars, osc11State>>

\* "Save and apply": config is replaced, then saveConfig(config) is awaited.
SettingsSave(h) ==
    /\ Inner
    /\ h.pc = "menu"
    /\ Commit([Ext EXCEPT !.config = MergeDraft(config, DraftOf(h.draft))])
    /\ Replace(h, [h EXCEPT !.pc = "save"])
    /\ Quiet
    /\ UNCHANGED <<now, env, tty, ovFile, cfgFile, osc11State>>

SettingsSaved(h) ==
    /\ Inner
    /\ h.pc = "save"
    /\ \E ok \in BOOLEAN :
         IF ok
         THEN /\ cfgFile' = saveConfig(h.draft)
              /\ StartTick(h, "settings", [Ext EXCEPT !.notes = <<"info:saved">>],
                           osc11State, FALSE, FALSE, "settings-tick-dropped")
         ELSE /\ Finish(h)
              /\ event' = Event("save-failed", "settings",
                                [Ext EXCEPT !.notes = <<"error:save-failed">>])
              /\ ret' = NoRet
              /\ UNCHANGED <<cfgFile, ui, extVars>>
    /\ UNCHANGED <<now, env, tty, ovFile, osc11State>>

SessionShutdown ==
    /\ Stimulus
    /\ LET x == IF intervalId # 0
                THEN [Ext EXCEPT !.intervalId = 0, !.liveTimers = @ - 1]
                ELSE Ext
       IN  Commit(x) /\ event' = Event("shutdown", "idle", x)
    /\ ret' = NoRet
    /\ UNCHANGED <<now, env, tty, ovFile, cfgFile, osc11State, tasks>>

\* The user picks another theme in the host's own settings.
UserSetTheme ==
    \E n \in ThemeNames :
        /\ Stimulus
        /\ n # ui.theme
        /\ ui' = [ui EXCEPT !.theme = n]
        /\ Quiet
        /\ UNCHANGED <<now, env, tty, ovFile, cfgFile, extVars, osc11State, tasks>>

SlowGrid == OSC11_DISABLE_COOLDOWN_MS

Advance == AdvanceOn(SlowGrid) /\ Stimulus

ExternalWrite ==
    /\ Stimulus
    /\ WriteFrom({NoObject("missing"), PushScriptFile("light", now)})

Next ==
    \/ TimerFire
    \/ SessionEnter
    \/ SessionShutdown
    \/ CmdSettings
    \/ CmdRefresh
    \/ CmdDebug
    \/ CmdPush
    \/ \E h \in Pending : ConfigLoaded(h)
    \/ \E h \in Pending : OverrideRead(h)
    \/ \E h \in Pending : ProbeDone(h)
    \/ \E h \in Pending : OSDone(h)
    \/ \E h \in Pending : PushWritten(h)
    \/ \E h \in Pending : SettingsEdit(h)
    \/ \E h \in Pending : SettingsCancel(h)
    \/ \E h \in Pending : SettingsSave(h)
    \/ \E h \in Pending : SettingsSaved(h)
    \/ UserSetTheme
    \/ Advance
    \/ ExternalWrite

Spec == Init /\ [][Next]_vars

\* ------------------------------------------------------------------------
\* Properties of the resolution engine
\* ------------------------------------------------------------------------
\* The override record as the specification words it: a valid appearance
\* and, when maxAgeMs > 0, a parsable updatedAt not older than maxAgeMs.
ValidFresh(f, t, maxAgeMs) ==
    /\ f.kind = "object"
    /\ f.appearance \in Appearance
    /\ maxAgeMs > 0 => (f.stamp = "iso" /\ t - f.ms <= maxAgeMs)

\* A record whose appearance is "auto", or whose age exceeds maxAgeMs > 0.
AutoOrStale(f, t, maxAgeMs) ==
    /\ f.kind = "object"
    /\ \/ f.appearance = "auto"
       \/ maxAgeMs > 0 /\ f.stamp = "iso" /\ t - f.ms > maxAgeMs

\* This step is a step of the pending handler h.
Steps(h) == CopiesIn(h, tasks') < CopiesIn(h, tasks)

\* What this step leaves pending that was not pending before.
Cont == {u \in BagToSet(tasks') : CopiesIn(u, tasks') > CopiesIn(u, tasks)}

ProbeStarted == \E u \in Cont : u.pc = "probe" /\ u.trace.osc11Attempted

OSStarted == \E u \in Cont : u.pc = "os"

\* The trace of the resolution that made this step: returned, or still pending.
StepTrace == IF Cont = {} THEN ret'.trace ELSE (CHOOSE u \in Cont : TRUE).trace

Strip(tr) == [tr EXCEPT !.override = Null]

\* C1: whenever the override file holds dark or light, valid and fresh, the
\* resolution returns that value with chosen source "override", whatever the
\* probe state and the allow/force options are; neither the probe nor the OS
\* query is started and the probe state is left alone.
C1_OverrideWins ==
    [][\A h \in Pending :
          (h.pc = "override" /\ Steps(h) /\ ValidFresh(ovFile, now, h.maxAgeMs))
          => /\ Cont = {}
             /\ ret'.kind = h.kind
             /\ ret'.trace.chosen = "override"
             /\ ret'.trace.appearance = ovFile.appearance
             /\ ret'.trace.override = ovFile.appearance
             /\ ~ret'.trace.osc11Attempted
             /\ ret'.trace.osResult = Null
             /\ osc11State' = osc11State]_vars

\* The override has won over a different cached probe value, in a call that
\* allowed the probe.
C1_Witness ==
    /\ ret.trace.chosen = "override"
    /\ allowOsc11Of(ret)
    /\ ret.trace.osc11Enabled
    /\ osc11State.lastAppearance \in Appearance
    /\ osc11State.lastAppearance # ret.trace.appearance

\* C2: when the override record is "auto" or older than maxAgeMs > 0, the
\* resolution never chooses "override", and goes on (probe state, next step,
\* trace apart from its override field) exactly as it does on a missing file.
C2_AutoOrStaleIgnored ==
    [][\A h \in Pending :
          (h.pc = "override" /\ Steps(h) /\ AutoOrStale(ovFile, now, h.maxAgeMs))
          => LET o == StepOverride(h, osc11State, NoObject("missing"), now,
                                   getOsc11MinIntervalMsOf(env))
             IN  /\ StepTrace.chosen # "override"
                 /\ StepTrace.override \notin Appearance
                 /\ osc11State' = o.st
                 /\ Strip(StepTrace) = Strip(o.task.trace)
                 /\ IF o.done THEN Cont = {}
                    ELSE \E u \in Cont : u.pc = o.task.pc /\ u.now = o.task.now]_vars

\* A stale dark record was passed over and the probe decided.
C2_Witness ==
    /\ ret.trace.chosen = "osc11"
    /\ ret.trace.override = Null
    /\ ret.maxAgeMs > 0
    /\ ovFile.kind = "object" /\ ovFile.appearance = "dark" /\ ovFile.stamp = "iso"
    /\ now - ovFile.ms > ret.maxAgeMs

\* What readOverrideFile returned to the resolutions that have read the file.
ReadOutcomes ==
    {[r |-> h.trace.override, maxAgeMs |-> h.maxAgeMs] :
        h \in {p \in Pending : p.pc \in {"probe", "os"}}}
    \cup (IF ret.kind = "direct"
          THEN {[r |-> ret.trace.override, maxAgeMs |-> ret.maxAgeMs]} ELSE {})

\* C3: reading the override file yields none when the file is missing,
\* unreadable, no JSON object, or its appearance is none of dark/light/auto;
\* with maxAgeMs > 0 also when updatedAt is missing or unparsable; with
\* maxAgeMs = 0 a valid appearance is returned whatever updatedAt is.
C3_ReadOverrideFile ==
    \A o \in ReadOutcomes :
        /\ (ovFile.kind # "object" \/ ovFile.appearance \notin {"dark", "light", "auto"})
              => o.r = Null
        /\ (o.maxAgeMs > 0 /\ ovFile.stamp # "iso") => o.r = Null
        /\ (o.maxAgeMs = 0 /\ ovFile.kind = "object"
                /\ ovFile.appearance \in {"dark", "light", "auto"})
              => o.r = ovFile.appearance

\* With maxAgeMs = 0 a record without a usable updatedAt, and one far older
\* than the default max age, have been accepted.
C3_Witness ==
    /\ ret.kind = "direct"
    /\ ret.maxAgeMs = 0
    /\ ret.trace.override \in Appearance
    /\ \/ ovFile.stamp # "iso"
       \/ now - ovFile.ms > DEFAULT_OVERRIDE_MAX_AGE_MS

\* C4: the circuit breaker.  A failed probe adds one to the failure counter
\* and a successful one clears it, and the breaker opens exactly on the
\* failure that brings the counter to OSC11_DISABLE_AFTER_FAILURES: then
\* disabledUntil is the probe's start + the cooldown and the counter is 0.
\* No resolution starts a probe while now < disabledUntil; the counter is 0
\* all through the cooldown; the first otherwise eligible resolution at or
\* after disabledUntil probes again; and while the breaker is open and no
\* probe value is cached, the resolution goes on to the OS query.
C4_CircuitBreaker ==
    [][/\ \A h \in Pending :
            (h.pc = "probe" /\ Steps(h))
            => IF StepTrace.osc11Result # Null
               THEN /\ osc11State'.failures = 0
                    /\ osc11State'.disabledUntil = osc11State.disabledUntil
               ELSE IF osc11State.failures + 1 = OSC11_DISABLE_AFTER_FAILURES
               THEN /\ osc11State'.failures = 0
                    /\ osc11State'.disabledUntil = h.now + OSC11_DISABLE_COOLDOWN_MS
               ELSE /\ osc11State'.failures = osc11State.failures + 1
                    /\ osc11State'.failures < OSC11_DISABLE_AFTER_FAILURES
                    /\ osc11State'.disabledUntil = osc11State.disabledUntil
       /\ \A h \in Pending :
            (h.pc = "override" /\ Steps(h) /\ now < osc11State.disabledUntil)
            => /\ ~ProbeStarted
               /\ osc11State' = osc11State
               /\ (~ValidFresh(ovFile, now, h.maxAgeMs) /\ osc11State.lastAppearance = Null)
                     => OSStarted
       /\ \A h \in Pending :
            (/\ h.pc = "override" /\ Steps(h)
             /\ osc11State.disabledUntil > 0 /\ now >= osc11State.disabledUntil
             /\ ~ValidFresh(ovFile, now, h.maxAgeMs)
             /\ isOsc11EnabledOf(env) /\ allowOsc11Of(h)
             /\ (h.forceOsc11 \/ now - osc11State.lastCheckedAt >= getOsc11MinIntervalMsOf(env)))
            => ProbeStarted /\ osc11State'.lastCheckedAt = now
       /\ now' < osc11State'.disabledUntil => osc11State'.failures = 0]_vars

\* The breaker has opened, the cooldown has elapsed, and a probe is under way
\* again.
C4_Witness ==
    \E h \in Pending :
        /\ h.pc = "probe"
        /\ osc11State.disabledUntil > 0
        /\ h.now >= osc11State.disabledUntil

\* C5: a forced call probes whenever probing is enabled, the override does
\* not decide and now >= disabledUntil, however recent lastCheckedAt is; and
\* it never probes while now < disabledUntil.
C5_ForceBypassesThrottleOnly ==
    [][\A h \in Pending :
          (/\ h.pc = "override" /\ Steps(h)
           /\ h.forceOsc11
           /\ isOsc11EnabledOf(env)
           /\ ~ValidFresh(ovFile, now, h.maxAgeMs))
          => /\ ProbeStarted <=> now >= osc11State.disabledUntil
             /\ ProbeStarted => osc11State'.lastCheckedAt = now]_vars

\* A forced probe is under way although the previous probe (a failed one) was
\* started less than the throttle interval before it.
C5_Witness ==
    \E h \in Pending :
        /\ h.pc = "probe"
        /\ h.forceOsc11 /\ ~h.allowOsc11
        /\ osc11State.failures > 0
        /\ h.now - StartTime < getOsc11MinIntervalMsOf(env)

\* C6: when the override does not decide, probing is enabled and allowed but
\* not forced, a probe value v is cached, the throttle interval has not
\* elapsed and no cooldown is active, the resolution returns v with chosen
\* source "osc11-cache"; it starts neither a probe nor the OS query.
C6_ThrottledReturnsCache ==
    [][\A h \in Pending :
          (/\ h.pc = "override" /\ Steps(h)
           /\ ~ValidFresh(ovFile, now, h.maxAgeMs)
           /\ isOsc11EnabledOf(env)
           /\ h.allowOsc11 /\ ~h.forceOsc11
           /\ osc11State.lastAppearance # Null
           /\ now - osc11State.lastCheckedAt < getOsc11MinIntervalMsOf(env)
           /\ now >= osc11State.disabledUntil)
          => /\ Cont = {}
             /\ ret'.trace.chosen = "osc11-cache"
             /\ ret'.trace.appearance = osc11State.lastAppearance
             /\ ret'.trace.osc11UsedCache
             /\ ~ret'.trace.osc11Attempted
             /\ ret'.trace.osResult = Null
             /\ osc11State' = osc11State]_vars

\* A throttled call has returned the value of the last probe, which succeeded.
C6_Witness ==
    /\ ret.trace.chosen = "osc11-cache"
    /\ ret.trace.osc11SkipReason = "throttled"
    /\ ret.allowOsc11 /\ ~ret.forceOsc11
    /\ osc11State.failures = 0
    /\ ret.trace.appearance = osc11State.lastAppearance

\* ------------------------------------------------------------------------
\* Properties of the extension
\* ------------------------------------------------------------------------
EnginePcs == {"override", "probe", "os"}

\* The handlers that resolve through tick: the timer's callback, the push and
\* settings commands, session start and session switch.
TickKinds == {"timer", "push", "settings", "enter"}

\* The resolution of some tick is pending.
TickPending == \E h \in Pending : h.kind \in TickKinds /\ h.pc \in EnginePcs

\* C7: a tick that arrives while the resolution of an earlier tick is pending
\* is dropped.  The timer's tick then changes nothing at all; the tick of a
\* push or settings command and of a session entry starts no resolution and
\* leaves the probe state (a session entry has reset it before the tick), the
\* last applied theme and the active theme alone; and the return of a
\* resolution starts no other one.
C7_TickDropped ==
    [][/\ (TickPending /\ TimerFire)
          => UNCHANGED <<tasks, osc11State, lastAppliedTheme, ui, config, inFlight,
                         didWarnCustomTheme, intervalId, liveTimers, ovFile, cfgFile>>
       /\ \A h \in Pending :
            (TickPending /\ h.pc \in {"write", "save"} /\ Steps(h))
            => Cont = {} /\ UNCHANGED <<osc11State, lastAppliedTheme, ui, inFlight>>
       /\ \A h \in Pending :
            (TickPending /\ h.pc = "loadcfg" /\ h.kind = "enter" /\ Steps(h))
            => Cont = {} /\ UNCHANGED <<lastAppliedTheme, ui, inFlight>>
       /\ ret' # NoRet => Cont = {}]_vars

\* The timer has fired while the resolution of an earlier tick was pending.
C7_Witness ==
    /\ event.op = "tick-dropped"
    /\ event.kind = "timer"
    /\ TickPending

\* C8: in every state at most one call of the resolution engine is pending.
C8_AtMostOneResolution ==
    \A h \in Pending :
        h.pc \in EnginePcs
        => /\ CopiesIn(h, tasks) = 1
           /\ \A g \in Pending : g.pc \in EnginePcs => g = h

\* The resolution of a timer tick and that of a refresh command are pending
\* at the same time, both past the override read.
C8_Witness ==
    \E h \in Pending, g \in Pending :
        /\ h.kind = "timer" /\ h.pc \in {"probe", "os"}
        /\ g.kind = "refresh" /\ g.pc \in {"probe", "os"}

\* The return of the resolution of a tick, of any kind of caller.
TickReturns == ret'.kind \in TickKinds

\* The theme name the tick maps the resolved appearance to.
TickTarget == IF ret'.trace.appearance = "dark" THEN config.darkTheme ELSE config.lightTheme

\* C9: a tick that has resolved an appearance calls setTheme, with the theme
\* mapped to the appearance, if and only if that theme is not the active one
\* or not the last applied one.  When the call succeeds the theme is the
\* active and the last applied one (so a next tick resolving the same
\* appearance makes no call); when no call is made both are left alone.
C9_ApplyOncePerChange ==
    [][(TickReturns /\ ret'.trace.appearance # Null)
       => /\ (event'.setTheme # Null)
              <=> (ui.theme # TickTarget \/ lastAppliedTheme # Applied(TickTarget))
          /\ event'.setTheme # Null => event'.setTheme = TickTarget
          /\ (event'.setTheme # Null /\ event'.result = "ok")
              => ui'.theme = TickTarget /\ lastAppliedTheme' = Applied(TickTarget)
          /\ event'.setTheme = Null
              => ui'.theme = ui.theme /\ lastAppliedTheme' = lastAppliedTheme]_vars

\* A timer tick has resolved an appearance whose theme had been applied by
\* an earlier tick, and has made no call.
C9_Witness ==
    /\ event.op = "return"
    /\ ret.kind = "timer"
    /\ ret.trace.appearance # Null
    /\ event.setTheme = Null
    /\ lastAppliedTheme.tag = "ok"

\* C10: a tick started by the periodic timer never attempts the probe: it is
\* started without allowOsc11 and forceOsc11, none of its steps starts a probe
\* or changes the probe state, and what it returns was chosen from the
\* override file or the OS query.
C10_TimerNeverProbes ==
    [][/\ TimerFire
          => /\ osc11State' = osc11State
             /\ \A u \in Cont : u.kind = "timer" /\ u.pc = "override" /\ ~allowOsc11Of(u)
       /\ \A h \in Pending :
            (h.kind = "timer" /\ Steps(h))
            => /\ h.pc \in {"override", "os"}
               /\ osc11State' = osc11State
               /\ ~ProbeStarted
               /\ ~StepTrace.osc11Attempted /\ ~StepTrace.osc11UsedCache
               /\ Cont = {} => ret'.trace.chosen \in {"override", "os", "none"}]_vars

\* A timer tick has returned the OS query's answer although probing is
\* enabled and a probe value is cached.
C10_Witness ==
    /\ ret.kind = "timer"
    /\ ret.trace.osc11Enabled
    /\ ret.trace.chosen = "os"
    /\ ret.trace.osc11SkipReason = "disabled-by-mode"
    /\ osc11State.lastAppearance # Null

\* The opt-in of the README ("1 to enable", default 0).
isOsFallbackEnabledOf(e) == e.OS_FALLBACK.raw = "1"

\* C11: OS detection is an opt-in fallback, disabled by default: while the
\* OS-fallback flag is not enabled, no resolution invokes the OS appearance
\* reader and none returns a decision with chosen source "os".
C11_OsFallbackOptIn ==
    ~isOsFallbackEnabledOf(env)
    => /\ \A h \in Pending : h.pc # "os"
       /\ ret.trace.osResult = Null
       /\ ret.trace.chosen # "os"

\* With the flag at its default, the resolution of a session entry has
\* returned the OS reader's answer.
C11_Witness ==
    /\ ~isOsFallbackEnabledOf(env)
    /\ ret.kind = "enter"
    /\ ret.trace.chosen = "os"
    /\ ret.trace.osResult \in Appearance

\* The explicit one-shot triggers: the refresh command, the push command,
\* session start and session switch.
TriggerKinds == {"refresh", "push", "enter"}

\* C12: each explicit one-shot trigger runs its resolution with the probe
\* forced: when the override does not decide, probing is enabled and no
\* cooldown is active, the trigger's resolution starts a probe, however
\* recently the last probe was started.
C12_TriggersForceProbe ==
    [][\A h \in Pending :
          (/\ h.kind \in TriggerKinds
           /\ h.pc = "override" /\ Steps(h)
           /\ ~ValidFresh(ovFile, now, h.maxAgeMs)
           /\ isOsc11EnabledOf(env)
           /\ now >= osc11State.disabledUntil)
          => h.forceOsc11 /\ ProbeStarted]_vars

\* The tick of /system-theme-push auto has gone to the OS query without a
\* probe, with probing enabled and no cooldown.
C12_Witness ==
    \E h \in Pending :
        /\ h.kind = "push" /\ ovFile.appearance = "auto"
        /\ h.pc = "os"
        /\ h.trace.osc11Enabled
        /\ ~h.trace.osc11Attempted
        /\ h.trace.osc11SkipReason = "disabled-by-mode"
        /\ osc11State.disabledUntil = 0

\* ------------------------------------------------------------------------
\* The extension under commands without end
\* ------------------------------------------------------------------------
\* The debug and refresh commands, issued again and again in one session of
\* a usable UI: stimuli are counted anew each time no handler is pending.
Settled ==
    /\ tasks = EmptyBag
    /\ ops > 0
    /\ ops' = 0
    /\ Quiet
    /\ UNCHANGED <<now, env, tty, ovFile, cfgFile, ui, extVars, osc11State, tasks>>

InitCommands ==
    InitWith({EnvOf(Unset, Unset, Unset)}, {FullUI}, {NoCfgFile}, {NoObject("missing")})

NextCommands ==
    \/ CmdDebug
    \/ CmdRefresh
    \/ \E h \in Pending : ConfigLoaded(h)
    \/ \E h \in Pending : OverrideRead(h)
    \/ \E h \in Pending : ProbeDone(h)
    \/ \E h \in Pending : OSDone(h)
    \/ TimerFire
    \/ Advance
    \/ Settled

SpecCommands == InitCommands /\ [][NextCommands]_vars

\* C13: a refresh command issued while a cooldown is active (now <
\* disabledUntil) attempts no probe: when it goes on to its resolution the
\* cooldown is as it was, and the resolution it starts cannot probe.
C13_RefreshHonoursCooldown ==
    [][\A h \in Pending :
          (/\ h.kind = "refresh" /\ h.pc = "loadcfg" /\ Steps(h)
           /\ now < osc11State.disabledUntil)
          => /\ osc11State'.disabledUntil = osc11State.disabledUntil
             /\ \A u \in Cont :
                  ~canProbe(now', osc11State', u.forceOsc11, getOsc11MinIntervalMsOf(env))]_vars

\* The third failed probe of the debug command has opened the breaker (its
\* resolution is at the OS query), and the probe of a refresh command is
\* under way before the cooldown's end, the cooldown having been wiped.
C13_Witness ==
    \E d \in Pending, r \in Pending :
        /\ d.kind = "debug" /\ d.pc = "os" /\ d.trace.osc11SkipReason = "cooldown"
        /\ r.kind = "refresh" /\ r.pc = "probe" /\ r.trace.osc11Attempted
        /\ r.now < d.now + OSC11_DISABLE_COOLDOWN_MS
        /\ osc11State.disabledUntil = 0

\* C14: after an explicit one-shot trigger (refresh, push, session entry) has
\* run its resolution with auto-sync enabled, the periodic timer has been
\* restarted whatever the resolution returned: when the handler has
\* completed, a timer of the current pollMs is running.
C14_TriggersRestartTimer ==
    [][(ret'.kind \in TriggerKinds /\ shouldAutoSync(Ext) /\ shouldAutoSync(Ext)')
       => /\ intervalId' = config'.pollMs
          /\ liveTimers' > 0]_vars

\* A refresh command whose resolution found no appearance has completed with
\* auto-sync enabled, and no timer is running.
C14_Witness ==
    /\ ret.kind = "refresh"
    /\ event.op = "return"
    /\ ret.trace.appearance = Null
    /\ shouldAutoSync(Ext)
    /\ intervalId = 0
    /\ liveTimers = 0

\* C15: on every session entry with auto-sync enabled the handler runs a
\* resolution of its own, whatever the timer's ticks are doing: with no
\* other handler pending than ticks of the timer, the step after loadConfig
\* starts it, and when it returns an appearance and setTheme does not fail,
\* the active theme is the theme mapped to that appearance.
C15_EntryReconciles ==
    [][/\ \A h \in Pending :
            (/\ h.kind = "enter" /\ h.pc = "loadcfg" /\ Steps(h)
             /\ CopiesIn(h, tasks) = 1
             /\ \A g \in Pending : g = h \/ g.kind = "timer"
             /\ shouldAutoSync([Ext EXCEPT !.config = loadConfig(cfgFile, env)]))
            => \E u \in Cont : u.kind = "enter" /\ u.pc = "override"
       /\ (/\ ret'.kind = "enter"
           /\ ret'.trace.appearance # Null
           /\ event'.setTheme # Null => event'.result = "ok")
          => ui'.theme = TickTarget]_vars

\* A session entry with auto-sync enabled has completed without a resolution
\* of its own: its tick was dropped because the resolution of a timer tick
\* was pending.
C15_Witness ==
    /\ event.op = "enter-tick-dropped"
    /\ shouldAutoSync(Ext)
    /\ \A h \in Pending : h.kind # "enter"
    /\ \E h \in Pending : h.kind = "timer" /\ h.pc \in EnginePcs

\* C16: on session start and session switch the handler reloads the
\* configuration and resets the probe state to its initial values (no
\* check yet, nothing cached, no failures, no cooldown) before its
\* resolution: the step after loadConfig does both, the entry's resolution
\* is started in that step and in no other, and it is started from the
\* reloaded configuration and the reset state.
C16_EntryResetsAndReloads ==
    [][/\ \A h \in Pending :
            (h.kind = "enter" /\ h.pc = "loadcfg" /\ Steps(h))
            => /\ osc11State' = InitialOsc11State
               /\ config' = loadConfig(cfgFile, env)
               /\ \A u \in Cont :
                    /\ u.kind = "enter" /\ u.pc = "override"
                    /\ u.maxAgeMs = config'.overrideMaxAgeMs
                    /\ u.trace.osc11Failures = 0
                    /\ ~u.trace.osc11Attempted
       /\ \A u \in Cont :
            (u.kind = "enter" /\ u.pc \in EnginePcs /\ u.pc # "override")
            => \E h \in Pending : h.kind = "enter" /\ h.pc \in EnginePcs /\ Steps(h)
       /\ \A u \in Cont :
            (u.kind = "enter" /\ u.pc = "override")
            => \E h \in Pending : h.kind = "enter" /\ h.pc = "loadcfg" /\ Steps(h)]_vars

\* A session entry has reset the probe state under the pending probe of a
\* debug command (which had set lastCheckedAt), and the entry's resolution
\* has been started.
C16_Witness ==
    /\ osc11State = InitialOsc11State
    /\ \E d \in Pending : d.kind = "debug" /\ d.pc = "probe"
    /\ \E e \in Pending : e.kind = "enter" /\ e.pc = "override"

\* C17: the periodic timer is never left running stale: once every command
\* and lifecycle handler has completed, an active timer has the period of
\* the current configuration's pollMs.
C17_TimerNeverStale ==
    (tasks = EmptyBag /\ intervalId # 0) => intervalId = config.pollMs

\* The settings command has replaced the configuration, its save has failed
\* and the handler has completed: the timer still has the former period.
C17_Witness ==
    /\ tasks = EmptyBag
    /\ event.op = "save-failed"
    /\ intervalId = DEFAULT_POLL_MS
    /\ config.pollMs = MIN_POLL_MS
    /\ liveTimers = 1

\* Auto-sync as the specification words it: the session can manage themes
\* and the active theme is one of the two mapped names or a default name.
MappedOrDefault ==
    /\ ui.hasUI /\ ui.themes
    /\ \/ ui.theme \in {config.darkTheme, config.lightTheme}
       \/ ui.theme \in {DEFAULT_CONFIG.darkTheme, DEFAULT_CONFIG.lightTheme}

\* Auto-sync as the ticks test it: the session can manage themes and either
\* a mapping differs from the defaults or the active theme is a default name.
OverriddenOrDefault ==
    /\ ui.hasUI /\ ui.themes
    /\ \/ config.darkTheme # DEFAULT_CONFIG.darkTheme
       \/ config.lightTheme # DEFAULT_CONFIG.lightTheme
       \/ ui.theme \in {DEFAULT_CONFIG.darkTheme, DEFAULT_CONFIG.lightTheme}

\* The resolution of a tick is started in this step.
TickStarted == \E u \in Cont : u.kind \in TickKinds /\ u.pc = "override"

\* C18 as claimed: a tick starts a resolution only when the session can
\* manage themes and the active theme is a mapped or a default name, and no
\* tick changes an active theme that is neither.
C18_TickOnlyMappedOrDefault ==
    [][/\ TickStarted => MappedOrDefault'
       /\ (ret'.kind \in TickKinds /\ ~MappedOrDefault) => ui'.theme = ui.theme]_vars

\* C18: a tick starts a resolution only when auto-sync is enabled as it is
\* called: the session can manage themes and either a mapping differs from
\* the defaults or the active theme is a default name.  A tick called
\* otherwise starts nothing and leaves the active and the last applied theme
\* alone; and outside the user's own choice the active theme changes only
\* where a returned resolution calls setTheme.
C18_TickOnlyWhenAutoSync ==
    [][/\ TickStarted => OverriddenOrDefault'
       /\ (TimerFire /\ ~OverriddenOrDefault)
          => UNCHANGED <<tasks, ui, lastAppliedTheme, osc11State, inFlight>>
       /\ \A h \in Pending :
            (/\ Steps(h)
             /\ h.pc \in {"write", "save"} \/ (h.pc = "loadcfg" /\ h.kind = "enter")
             /\ ~OverriddenOrDefault')
            => Cont = {} /\ UNCHANGED <<ui, lastAppliedTheme, inFlight>>
       /\ (ui'.theme # ui.theme /\ ops' = ops)
          => /\ ret'.kind \in TickKinds \cup {"refresh"}
             /\ event'.setTheme = ui'.theme
             /\ event'.result = "ok"]_vars

\* The timer has fired under the default mapping while the active theme was
\* a custom one, and its tick has started nothing.
C18_Witness ==
    /\ event.op = "tick-off"
    /\ ui.hasUI /\ ui.themes
    /\ ui.theme = "solar"
    /\ config.darkTheme = DEFAULT_CONFIG.darkTheme
    /\ config.lightTheme = DEFAULT_CONFIG.lightTheme
    /\ tasks = EmptyBag

\* This step has written a line with console.warn.
Warned == \E i \in DOMAIN event'.notes : event'.notes[i] = "warn:setTheme"

\* C19: over any sequence of ticks a theme-apply failure is logged at most
\* once for each pair of target theme and error message: a tick that logs
\* the failure of setTheme logs a line that no earlier tick has written.
C19_WarnOncePerPair ==
    [][(ret'.kind \in TickKinds /\ Warned)
       => <<event'.setTheme, event'.result>> \notin console]_vars

\* C20: when the resolution of a tick returns no appearance (no source had
\* a value), the tick calls no setTheme, writes no log line and leaves the
\* active theme and lastAppliedTheme as they were; it clears inFlight.
C20_NoAppearanceNoChange ==
    [][(ret'.kind \in TickKinds /\ ret'.trace.appearance = Null)
       => /\ event'.setTheme = Null
          /\ event'.result = Null
          /\ ui' = ui
          /\ lastAppliedTheme' = lastAppliedTheme
          /\ console' = console
          /\ config' = config
          /\ inFlight' = FALSE]_vars

\* The timer's tick has returned without an appearance after an earlier tick
\* had applied the dark theme, which is still the active one.
C20_Witness ==
    /\ ret.kind = "timer"
    /\ event.op = "return"
    /\ ret.trace.chosen = "none"
    /\ ret.trace.appearance = Null
    /\ event.setTheme = Null
    /\ lastAppliedTheme = Applied("dark")
    /\ ui.theme = "dark"

\* ------------------------------------------------------------------------
\* The engine alone, with every awaited operation completing
\* ------------------------------------------------------------------------
\* readFile settles (a rejection is caught at line 189), the probe is ended
\* by its kill timer at the latest and each OS query by its own timeout:
\* a pending step of a resolution is eventually taken.
SpecReadFair ==
    SpecRead /\ WF_vars(\E h \in Pending : OverrideRead(h) \/ ProbeDone(h) \/ OSDone(h))

\* C21: the resolution engine never raises.  Whatever fails (the override
\* file missing, unreadable or malformed; the probe without a usable answer;
\* the OS query without one), every call returns a trace whose appearance is
\* dark, light or none, none exactly when nothing was chosen; and a source
\* without a value hands over to the next one: the override to the probe
\* (when the call may probe) or else to the cached probe value or the OS
\* query, the probe to its cached value or else to the OS query, the OS
\* query to "none".
C21_NeverRaises ==
    /\ [][\A h \in Pending :
            Steps(h) =>
              /\ Cont = {} => /\ ret'.kind = h.kind
                              /\ ret'.trace.appearance \in Appearance \cup {Null}
                              /\ ret'.trace.appearance = Null <=> ret'.trace.chosen = "none"
              /\ Cont # {} => ret' = NoRet /\ Cardinality(Cont) = 1
              /\ (h.pc = "override" /\ readOverrideFile(ovFile, now, h.maxAgeMs) \notin Appearance)
                 => /\ StepTrace.chosen \notin {"override", "none"}  \/ Cont # {}
                    /\ IF /\ isOsc11EnabledOf(env) /\ allowOsc11Of(h)
                          /\ canProbe(now, osc11State, h.forceOsc11, getOsc11MinIntervalMsOf(env))
                       THEN ProbeStarted
                       ELSE IF isOsc11EnabledOf(env) /\ allowOsc11Of(h)
                               /\ osc11State.lastAppearance # Null
                       THEN Cont = {} /\ ret'.trace.chosen = "osc11-cache"
                       ELSE OSStarted
              /\ (h.pc = "probe" /\ StepTrace.osc11Result = Null)
                 => IF osc11State'.lastAppearance # Null
                    THEN Cont = {} /\ ret'.trace.chosen = "osc11-cache"
                    ELSE OSStarted
              /\ (h.pc = "os")
                 => /\ Cont = {}
                    /\ ret'.trace.osResult = Null => ret'.trace.chosen = "none"
                    /\ ret'.trace.osResult # Null => ret'.trace.chosen = "os"]_vars
    /\ (tasks # EmptyBag) ~> (ret.kind = "direct")

\* A call has completed although every source failed: the override file
\* could not be read, the probe had no answer and neither had the OS query.
C21_Witness ==
    /\ ret.kind = "direct"
    /\ ovFile.kind = "unreadable"
    /\ ret.trace.override = Null
    /\ ret.trace.osc11Attempted /\ ret.trace.osc11Result = Null
    /\ ret.trace.osResult = Null
    /\ ret.trace.chosen = "none"
    /\ ret.trace.appearance = Null

\* The error notifications among the notes of the last step.
ErrorNotes ==
    {i \in DOMAIN event.notes :
        event.notes[i] \in {"error:save-failed", "error:push-failed", "error:refresh-failed"}}

\* C22: when the settings command's save or the push command's write fails,
\* the user gets exactly one error notification and the handler completes
\* without raising.
C22_WriteFailureSurfaced ==
    event.op \in {"save-failed", "push-failed"}
    => /\ ~event.thrown
       /\ Cardinality(ErrorNotes) = 1

\* The push command's write has failed: the handler has raised and has
\* notified nothing.
C22_Witness ==
    /\ event.op = "push-failed"
    /\ event.kind = "push"
    /\ event.thrown
    /\ event.notes = <<>>
    /\ ui.hasUI
    /\ \A h \in Pending : h.kind # "push"

\* ------------------------------------------------------------------------
\* The push command and the resolutions that follow it
\* ------------------------------------------------------------------------
\* The push and debug commands in one session of a usable UI, with a clock
\* that moves freely; PI_SYSTEM_THEME_OVERRIDE_MAX_AGE_MS is unset or 0.
InitPush ==
    InitWith({EnvOf(Unset, Unset, age) : age \in {Unset, EnvRaw("number", 0)}}, {FullUI},
             {NoCfgFile}, {NoObject("missing")})

AdvancePush == AdvanceOn(SlowGrid) /\ Inner

NextPush ==
    \/ CmdPush
    \/ CmdDebug
    \/ \E h \in Pending : PushWritten(h)
    \/ \E h \in Pending : ConfigLoaded(h)
    \/ \E h \in Pending : OverrideRead(h)
    \/ \E h \in Pending : ProbeDone(h)
    \/ \E h \in Pending : OSDone(h)
    \/ AdvancePush

SpecPush == InitPush /\ [][NextPush]_vars

InitAged ==
    InitWith({EnvOf(Unset, Unset, Unset)}, {FullUI}, {NoCfgFile},
             {ObjectFile("dark", "iso", StartTime - DEFAULT_OVERRIDE_MAX_AGE_MS)})

SpecAged == InitAged /\ [][Next]_vars

\* The handlers C24 names besides the push command.
NonPushKinds == {"timer", "enter", "settings", "refresh", "debug"}

\* C24: the override file is written by explicit push actions only (the push
\* command's write, or a push from another machine).  No step of a timer
\* tick, a session entry, the settings, refresh or debug command changes
\* it, nor does the passing of time; and a resolution that finds the record
\* stale or otherwise unusable leaves it in the file as it is.
C24_OnlyPushWrites ==
    [][/\ ovFile' # ovFile
          => \/ \E h \in Pending : h.kind = "push" /\ h.pc = "write" /\ Steps(h)
             \/ ExternalWrite
       /\ (TimerFire \/ SessionEnter \/ CmdSettings \/ CmdRefresh \/ CmdDebug \/ now' # now)
          => ovFile' = ovFile
       /\ \A h \in Pending :
            (Steps(h) /\ h.kind \in NonPushKinds) => ovFile' = ovFile
       /\ \A h \in Pending :
            (/\ Steps(h) /\ h.pc = "override"
             /\ readOverrideFile(ovFile, now, h.maxAgeMs) = Null)
            => ovFile' = ovFile]_vars

\* The timer's tick has read the record after it had become stale and has
\* gone on to the OS query; the record is still in the file.
C24_Witness ==
    /\ ret.kind = "timer"
    /\ ret.trace.override = Null
    /\ ret.trace.chosen \in {"os", "none"}
    /\ ovFile = ObjectFile("dark", "iso", StartTime - DEFAULT_OVERRIDE_MAX_AGE_MS)
    /\ now - ovFile.ms > ret.maxAgeMs
    /\ ret.maxAgeMs > 0

\* C25: the failure counter of the probe state is 0 right after every probe
\* that succeeded and right after every failed probe that opened the breaker
\* (the failure that found the counter at the threshold less one); so after
\* every step, of overlapping resolutions too, it lies in
\* 0..OSC11_DISABLE_AFTER_FAILURES-1.
C25_FailuresBelowThreshold ==
    [][/\ osc11State'.failures \in 0..(OSC11_DISABLE_AFTER_FAILURES - 1)
       /\ \A h \in Pending :
            (h.pc = "probe" /\ Steps(h))
            => /\ StepTrace.osc11Result # Null => osc11State'.failures = 0
               /\ (/\ StepTrace.osc11Result = Null
                   /\ \/ StepTrace.osc11SkipReason = "cooldown"
                      \/ osc11State'.disabledUntil # osc11State.disabledUntil
                      \/ osc11State.failures = OSC11_DISABLE_AFTER_FAILURES - 1)
                  => /\ osc11State'.failures = 0
                     /\ StepTrace.osc11Failures = 0
                     /\ osc11State'.disabledUntil = h.now + OSC11_DISABLE_COOLDOWN_MS
               /\ (/\ StepTrace.osc11Result = Null
                   /\ osc11State.failures < OSC11_DISABLE_AFTER_FAILURES - 1)
                  => osc11State'.failures = osc11State.failures + 1]_vars

\* A command's probe has just failed as the third in a row: the breaker is
\* open and the counter is back at 0.
C25_Witness ==
    /\ ret.kind \in {"refresh", "debug"}
    /\ ret.trace.osc11Attempted
    /\ ret.trace.osc11Result = Null
    /\ ret.trace.osc11SkipReason = "cooldown"
    /\ osc11State.disabledUntil > now
    /\ osc11State.failures = 0

\* ------------------------------------------------------------------------
\* loadConfig over settings files and environments
\* ------------------------------------------------------------------------
\* Settings files: absent or corrupt, or an object whose pollMs is no finite
\* number (0), below MIN_POLL_MS, at it, or above, with or without a theme.
LoadCfgFiles ==
    {NoCfgFile} \cup
    {[kind |-> "object", darkTheme |-> Null, lightTheme |-> Null, pollMs |-> p] :
        p \in {0, -5, 999, MIN_POLL_MS, 3000}} \cup
    {[kind |-> "object", darkTheme |-> "nord", lightTheme |-> Null, pollMs |-> 0]}

LoadEnvs ==
    {[EnvOf(Unset, Unset, age) EXCEPT !.OVERRIDE_FILE = file] :
        age \in {Unset, EnvRaw("number", -1), EnvRaw("number", 0), EnvRaw("number", 5000),
                 EnvRaw("abc", 0)},
        file \in {Unset, EnvRaw("   ", 0), EnvRaw(" /tmp/override.json ", 0)}}

InitLoad == InitWith(LoadEnvs, {FullUI}, LoadCfgFiles, {NoObject("missing")})

NextLoad ==
    \/ SessionEnter
    \/ CmdDebug
    \/ \E h \in Pending : ConfigLoaded(h)
    \/ \E h \in Pending : OverrideRead(h)
    \/ \E h \in Pending : ProbeDone(h)
    \/ \E h \in Pending : OSDone(h)

SpecLoad == InitLoad /\ [][NextLoad]_vars

\* The defaults the README documents: theme names and poll interval (lines
\* 51-53), override file and its max age (lines 142-143).
DocumentedDefaults ==
    [darkTheme |-> "dark", lightTheme |-> "light", pollMs |-> DEFAULT_POLL_MS,
     overrideFile |-> "~/.pi/agent/theme-sync-override.json",
     overrideMaxAgeMs |-> DEFAULT_OVERRIDE_MAX_AGE_MS]

ConfigLoads(h) == h.pc = "loadcfg" /\ Steps(h)

NoEnvOverrides == env.OVERRIDE_FILE = Unset /\ env.OVERRIDE_MAX_AGE_MS = Unset

\* Every loaded configuration has pollMs >= MIN_POLL_MS and
\* overrideMaxAgeMs >= 0, and all but the override path are the documented
\* defaults when there is no settings file and no variable is set.
LoadedWithinBounds ==
    [][\A h \in Pending :
          ConfigLoads(h)
          => /\ config'.pollMs >= MIN_POLL_MS
             /\ config'.overrideMaxAgeMs >= 0
             /\ (cfgFile.kind = "none" /\ NoEnvOverrides)
                => config' = [DocumentedDefaults EXCEPT !.overrideFile = DEFAULT_OVERRIDE_FILE]]_vars

\* C26: with the settings file absent or corrupt and no overriding
\* environment variable set, the loaded configuration is exactly the
\* documented defaults (themes dark and light, pollMs 8000, overrideMaxAgeMs
\* 60000, the default override path); and every loaded configuration has
\* pollMs >= 1000 and overrideMaxAgeMs >= 0.
C26_LoadsDocumentedDefaults ==
    [][\A h \in Pending :
          ConfigLoads(h)
          => /\ (cfgFile.kind = "none" /\ NoEnvOverrides) => config' = DocumentedDefaults
             /\ config'.pollMs >= MIN_POLL_MS
             /\ config'.overrideMaxAgeMs >= 0]_vars

\* A session entry has loaded the configuration with no settings file and
\* no variable set, and its resolution is under way.
C26_Witness ==
    /\ cfgFile.kind = "none"
    /\ NoEnvOverrides
    /\ config = DEFAULT_CONFIG
    /\ \E h \in Pending : h.kind = "enter" /\ h.pc = "override"

\* ------------------------------------------------------------------------
\* The probe's answer: to8Bit and the luminance test of OSC11_QUERY_SCRIPT
\* ------------------------------------------------------------------------
\* The hexadecimal digits; parseInt(c, 16) of one of them.
HexDigits ==
    <<"0", "1", "2", "3", "4", "5", "6", "7", "8", "9", "a", "b", "c", "d", "e", "f">>

HexValue(c) == (CHOOSE i \in 1..16 : HexDigits[i] = c) - 1

\* A reply rgb:R/G/B: each channel is a string of hexadecimal digits, given
\* as the sequence of its characters.  cuts are the lengths of the reply that a
\* poll of the script finds arrived before the whole of it has (none when
\* the reply arrives in one piece).
RgbReply(r, g, b) == [kind |-> "rgb", r |-> r, g |-> g, b |-> b, cuts |-> {}]

\* to8Bit(hex) for a matched channel (2 to 8 digits): the first two digits.
to8Bit(hex) ==
    IF Len(hex) = 0 THEN 0
    ELSE IF Len(hex) = 1 THEN 16 * HexValue(hex[1]) + HexValue(hex[1])
    ELSE 16 * HexValue(hex[1]) + HexValue(hex[2])

\* JavaScript numbers are IEEE-754 doubles.  A double below 256 is held here
\* exactly, as the little-endian binary digits of its multiple of 2^-56 (the
\* unit in the last place of the smallest coefficient, 0.114).
DoubleBits == 66

Zeros(k) == [i \in 1..k |-> 0]

HexDigitBits(d) == <<d % 2, (d \div 2) % 2, (d \div 4) % 2, (d \div 8) % 2>>

RECURSIVE MantissaBits(_)
MantissaBits(ds) ==
    IF ds = <<>> THEN <<1>>
    ELSE HexDigitBits(ds[Len(ds)]) \o MantissaBits(SubSeq(ds, 1, Len(ds) - 1))

\* The double 0x1.<ds>p<exp>.
DoubleOf(ds, exp) ==
    LET m == Zeros(exp + 4) \o MantissaBits(ds) IN m \o Zeros(DoubleBits - Len(m))

\* The literals of line 261 as doubles: 0x1.322d0e5604189p-2,
\* 0x1.2c8b439581062p-1 and 0x1.d2f1a9fbe76c9p-4.
Coeff299 == DoubleOf(<<3, 2, 2, 13, 0, 14, 5, 6, 0, 4, 1, 8, 9>>, -2)
Coeff587 == DoubleOf(<<2, 12, 8, 11, 4, 3, 9, 5, 8, 1, 0, 6, 2>>, -1)
Coeff114 == DoubleOf(<<13, 2, 15, 1, 10, 9, 15, 11, 14, 7, 6, 12, 9>>, -4)

\* a + b and a * n without rounding, digit by digit with the carry.
RECURSIVE SumFrom(_, _, _, _)
SumFrom(a, b, i, carry) ==
    IF i > DoubleBits THEN <<>>
    ELSE LET s == a[i] + b[i] + carry IN <<s % 2>> \o SumFrom(a, b, i + 1, s \div 2)

ExactSum(a, b) == SumFrom(a, b, 1, 0)

RECURSIVE ProductFrom(_, _, _, _)
ProductFrom(a, n, i, carry) ==
    IF i > DoubleBits THEN <<>>
    ELSE LET s == a[i] * n + carry IN <<s % 2>> \o ProductFrom(a, n, i + 1, s \div 2)

ExactProduct(a, n) == ProductFrom(a, n, 1, 0)

TopBit(x) ==
    LET S == {i \in 1..DoubleBits : x[i] = 1} IN
    IF S = {} THEN 0 ELSE CHOOSE i \in S : \A j \in S : j <= i

\* Rounding to 53 significant bits, to nearest, ties to even.
RoundToDouble(x) ==
    LET k == TopBit(x) - 53 IN
    IF k <= 0 THEN x
    ELSE LET truncated == [i \in 1..DoubleBits |-> IF i <= k THEN 0 ELSE x[i]]
             up == /\ x[k] = 1
                   /\ \/ \E i \in 1..(k - 1) : x[i] = 1
                      \/ x[k + 1] = 1
         IN  IF up
             THEN ExactSum(truncated, [i \in 1..DoubleBits |-> IF i = k + 1 THEN 1 ELSE 0])
             ELSE truncated

\* c * n and a + b as the engine computes them (n an integer in 0..255).
Times(c, n) == RoundToDouble(ExactProduct(c, n))
Plus(a, b) == RoundToDouble(ExactSum(a, b))

\* 0.299 * r + 0.587 * g + 0.114 * b, evaluated from the left.
luminance(r, g, b) == Plus(Plus(Times(Coeff299, r), Times(Coeff587, g)), Times(Coeff114, b))

\* x < 128, 128 being 2^63 units.
Below128(x) == \A i \in 64..DoubleBits : x[i] = 0

\* The text of a reply, ESC ] 11 ; rgb:R/G/B BEL, as its characters.
RgbPrefix == <<"r", "g", "b", ":">>

ReplyText(reply) ==
    IF reply.kind # "rgb" THEN <<>>
    ELSE <<"esc", "]", "1", "1", ";">> \o RgbPrefix \o reply.r \o <<"/">> \o reply.g
         \o <<"/">> \o reply.b \o <<"bel">>

IsHex(c) == \E i \in 1..16 : HexDigits[i] = c

StartsAt(s, i, pat) ==
    /\ i + Len(pat) - 1 <= Len(s)
    /\ \A k \in 1..Len(pat) : s[i + k - 1] = pat[k]

\* response.includes('rgb:')
IncludesRgb(s) == \E i \in 1..Len(s) : StartsAt(s, i, RgbPrefix)

\* The number of hexadecimal digits of s from position i on.
HexRun(s, i) ==
    CHOOSE n \in 0..(Len(s) + 1 - i) :
        /\ \A k \in 0..(n - 1) : IsHex(s[i + k])
        /\ i + n > Len(s) \/ ~IsHex(s[i + n])

\* /rgb:([0-9a-fA-F]{2,8})\/([0-9a-fA-F]{2,8})\/([0-9a-fA-F]{2,8})/ tried at
\* position i: the first two groups are the whole run of digits before the
\* slash, the third is the first 8 digits of its run at most.
MatchAt(s, i) ==
    LET p1 == i + Len(RgbPrefix)
        n1 == HexRun(s, p1)
        p2 == p1 + n1 + 1
        n2 == HexRun(s, p2)
        p3 == p2 + n2 + 1
        n3 == HexRun(s, p3)
    IN  IF /\ StartsAt(s, i, RgbPrefix)
           /\ n1 \in 2..8 /\ StartsAt(s, p1 + n1, <<"/">>)
           /\ n2 \in 2..8 /\ StartsAt(s, p2 + n2, <<"/">>)
           /\ n3 >= 2
        THEN [ok |-> TRUE, r |-> SubSeq(s, p1, p1 + n1 - 1), g |-> SubSeq(s, p2, p2 + n2 - 1),
              b |-> SubSeq(s, p3, p3 + (IF n3 > 8 THEN 8 ELSE n3) - 1)]
        ELSE [ok |-> FALSE, r |-> <<>>, g |-> <<>>, b |-> <<>>]

\* response.match(...): the leftmost position at which the pattern matches.
Match(s) ==
    LET at == {i \in 1..Len(s) : MatchAt(s, i).ok} IN
    IF at = {} THEN MatchAt(s, Len(s) + 1)
    ELSE MatchAt(s, CHOOSE i \in at : \A j \in at : i <= j)

\* done(): what the script writes to stdout for the response read so far.
done(response) ==
    LET m == Match(response) IN
    IF ~m.ok THEN Null
    ELSE IF Below128(luminance(to8Bit(m.r), to8Bit(m.g), to8Bit(m.b)))
         THEN "dark" ELSE "light"

\* What successive polls find read: the reply up to each cut, then all of it.
Arrivals(reply) ==
    {SubSeq(ReplyText(reply), 1, n) :
        n \in (reply.cuts \cap 1..Len(ReplyText(reply))) \cup {Len(ReplyText(reply))}}

\* poll(): tryRead, then done() as soon as the response includes 'rgb:' or
\* the deadline has passed; the reply has arrived in full by the deadline.
poll(reply) ==
    LET stops == {a \in Arrivals(reply) : IncludesRgb(a)} IN
    IF stops = {} THEN done(ReplyText(reply))
    ELSE done(CHOOSE a \in stops : \A c \in stops : Len(a) <= Len(c))

\* ------------------------------------------------------------------------
\* The engine called directly on a terminal that answers with a colour
\* ------------------------------------------------------------------------
Hex2(n) == <<HexDigits[(n \div 16) + 1], HexDigits[(n % 16) + 1]>>

\* Background colours: black, white and the greys and primaries between
\* them, colours whose weighted sum 299R + 587G + 114B is exactly 128000 or
\* next to it, and one reply with four digits per channel.
Colours ==
    {<<r, g, b>> : r \in {0, 128, 255}, g \in {0, 128, 255}, b \in {0, 128, 255}}
    \cup {<<8, 200, 72>>, <<24, 160, 236>>, <<1, 189, 147>>, <<4, 210, 31>>,
          <<127, 127, 127>>, <<129, 128, 128>>, <<128, 128, 127>>, <<128, 128, 129>>}

Replies ==
    {NoReply, RgbReply(<<"8", "0", "8", "0">>, <<"8", "0", "8", "0">>, <<"8", "0", "8", "0">>)}
    \cup {RgbReply(Hex2(c[1]), Hex2(c[2]), Hex2(c[3])) : c \in Colours}

\* The extension as constructed, on a terminal with the reply tty.
InitOn(replies) ==
    /\ now = StartTime
    /\ env = EnvOf(Unset, Unset, Unset)
    /\ tty \in replies
    /\ ovFile = NoObject("missing")
    /\ cfgFile = NoCfgFile
    /\ ui = FullUI
    /\ config = DEFAULT_CONFIG
    /\ osc11State = InitialOsc11State
    /\ inFlight = FALSE
    /\ lastAppliedTheme = NullTheme
    /\ didWarnCustomTheme = FALSE
    /\ intervalId = 0
    /\ liveTimers = 0
    /\ console = {}
    /\ tasks = EmptyBag
    /\ ret = NoRet
    /\ event = NoEvent
    /\ ops = 0

InitColour == InitOn(Replies)

\* queryTerminalBackground has completed with what the script wrote for the
\* terminal's reply.
ProbeAnswered(h) ==
    /\ h.pc = "probe"
    /\ Proceed(h, StepProbe(h, osc11State, poll(tty)))

NextColour ==
    \/ DirectCall
    \/ \E h \in Pending : OverrideRead(h)
    \/ \E h \in Pending : ProbeAnswered(h)
    \/ \E h \in Pending : OSDone(h)

SpecColour == InitColour /\ [][NextColour]_vars

\* 1000 times the luminance of the reply's colour, in integers.
WeightedSum(reply) == 299 * to8Bit(reply.r) + 587 * to8Bit(reply.g) + 114 * to8Bit(reply.b)

\* The probe's answer is the integer test for every colour off the boundary.
ClassifiesOffBoundary ==
    [][\A h \in Pending :
          (h.pc = "probe" /\ Steps(h) /\ tty.kind = "rgb" /\ WeightedSum(tty) # 128000)
          => StepTrace.osc11Result = IF WeightedSum(tty) < 128000 THEN "dark" ELSE "light"]_vars

\* C27: the probe classifies a background colour by luminance
\* 0.299 R + 0.587 G + 0.114 B over the 8-bit channels, dark iff the
\* luminance is below 128, that is iff 299 R + 587 G + 114 B < 128000:
\* black is dark, white is light, and a colour of luminance exactly 128,
\* such as R = G = B = 128, is light.
C27_LuminanceClassifies ==
    [][\A h \in Pending :
          (h.pc = "probe" /\ Steps(h) /\ tty.kind = "rgb")
          => StepTrace.osc11Result = IF WeightedSum(tty) < 128000 THEN "dark" ELSE "light"]_vars

\* The terminal's background is R = G = B = 128 and the probe has answered
\* dark.
C27_Witness ==
    /\ tty = RgbReply(Hex2(128), Hex2(128), Hex2(128))
    /\ ret.trace.osc11Attempted
    /\ ret.trace.osc11Result = "dark"
    /\ ret.trace.chosen = "osc11"

\* C28: probe attempts are throttled.  The start of every probe attempt,
\* forced or not, is recorded (lastCheckedAt), and its outcome does not touch
\* the record; so between resets lastCheckedAt is the start of the latest
\* attempt, and a resolution that is not forced starts a probe only when at
\* least the minimum interval has passed since then.
C28_ProbesThrottled ==
    [][/\ \A h \in Pending :
            (h.pc = "override" /\ Steps(h) /\ ProbeStarted)
            => /\ osc11State'.lastCheckedAt = now
               /\ \E u \in Cont : u.pc = "probe" /\ u.now = now
               /\ ~h.forceOsc11
                  => now - osc11State.lastCheckedAt >= getOsc11MinIntervalMsOf(env)
       /\ \A h \in Pending :
            (Steps(h) /\ ~ProbeStarted)
            => osc11State'.lastCheckedAt = osc11State.lastCheckedAt
       /\ (\A h \in Pending : ~Steps(h))
            => osc11State'.lastCheckedAt = osc11State.lastCheckedAt]_vars

\* A probe that was not forced is under way, started a minimum interval
\* after the extension's start, and an earlier attempt of the session has
\* failed.
C28_Witness ==
    \E h \in Pending :
        /\ h.pc = "probe"
        /\ ~h.forceOsc11
        /\ h.now >= StartTime + OSC11_MIN_INTERVAL_MS
        /\ osc11State.lastCheckedAt = h.now
        /\ osc11State.failures > 0

\* ------------------------------------------------------------------------
\* Debug commands in quick succession
\* ------------------------------------------------------------------------
\* Debug commands whose handlers are pending at the same time.
MaxOverlap == 4

\* system-theme-debug run while earlier runs are still pending.
CmdDebugOverlapping ==
    /\ ui.hasUI
    /\ BagCardinality(tasks) < MaxOverlap
    /\ tasks' = tasks (+) SetToBag({[IdleTask EXCEPT !.kind = "debug", !.pc = "loadcfg"]})
    /\ Inner
    /\ Quiet
    /\ UNCHANGED <<now, env, tty, ovFile, cfgFile, ui, extVars, osc11State>>

\* The commands come within one probe's lifetime.
AdvanceBurst == now < StartTime + SubStep /\ Pass(SubStep) /\ Inner

NextBurst ==
    \/ CmdDebugOverlapping
    \/ \E h \in Pending : ConfigLoaded(h)
    \/ \E h \in Pending : OverrideRead(h)
    \/ \E h \in Pending : ProbeDone(h)
    \/ \E h \in Pending : OSDone(h)
    \/ AdvanceBurst

SpecBurst == InitCommands /\ [][NextBurst]_vars

\* The opening of the breaker alone: disabledUntil becomes the start of the
\* failing probe + the cooldown, which is not before the current time.
BreakerOpensFromStart ==
    [][\A h \in Pending :
          (/\ h.pc = "probe" /\ Steps(h)
           /\ StepTrace.osc11Result = Null
           /\ osc11State.failures + 1 >= OSC11_DISABLE_AFTER_FAILURES)
          => /\ osc11State'.disabledUntil = h.now + OSC11_DISABLE_COOLDOWN_MS
             /\ osc11State'.disabledUntil >= now]_vars

\* C29: whenever the breaker opens, disabledUntil becomes the start of the
\* failing probe + OSC11_DISABLE_COOLDOWN_MS, which is not before the time of
\* the assignment; and where the probe state is not reset, disabledUntil
\* never decreases.
C29_DisabledUntilMonotonic ==
    [][/\ \A h \in Pending :
            (/\ h.pc = "probe" /\ Steps(h)
             /\ StepTrace.osc11Result = Null
             /\ osc11State.failures + 1 >= OSC11_DISABLE_AFTER_FAILURES)
            => /\ osc11State'.disabledUntil = h.now + OSC11_DISABLE_COOLDOWN_MS
               /\ osc11State'.disabledUntil >= now
       /\ osc11State' # resetOsc11State
            => osc11State'.disabledUntil >= osc11State.disabledUntil]_vars

\* The override read of the stepping call h returns no decision.
NotDecisive(h) == readOverrideFile(ovFile, now, h.maxAgeMs) \notin Appearance

\* C30: within one resolution the sources are consulted in the order
\* override, probe, OS, each awaited before the next is started.  A call
\* begins with the override read and nothing else; the probe is started only
\* by the step in which the override read returns without a decision; the OS
\* query is started only by that step (the probe being skipped) or by the
\* step in which the probe ends without a value; a source that decides ends
\* the call, and nothing follows the OS query.
C30_SourcesInOrder ==
    [][/\ \A u \in Cont :
            CASE u.pc = "override" ->
                   /\ \A h \in Pending : ~Steps(h)
                   /\ u.trace.override = Null
                   /\ ~u.trace.osc11Attempted
                   /\ u.trace.osc11Result = Null
                   /\ u.trace.osResult = Null
              [] u.pc = "probe" ->
                   /\ \E h \in Pending : Steps(h) /\ h.pc = "override" /\ NotDecisive(h)
                   /\ u.trace.osc11Attempted
                   /\ u.trace.osc11Result = Null
                   /\ u.trace.osResult = Null
              [] u.pc = "os" ->
                   /\ \E h \in Pending :
                        /\ Steps(h)
                        /\ \/ h.pc = "override" /\ NotDecisive(h) /\ ~u.trace.osc11Attempted
                           \/ h.pc = "probe" /\ u.trace.osc11Attempted
                   /\ u.trace.override \notin Appearance
                   /\ u.trace.osc11Result = Null
                   /\ u.trace.osResult = Null
              [] OTHER -> FALSE
       /\ \A h \in Pending :
            (Steps(h) /\ h.pc = "override" /\ ~NotDecisive(h))
            => Cont = {} /\ ret'.trace.chosen = "override"
                         /\ ~ret'.trace.osc11Attempted /\ ret'.trace.osResult = Null
       /\ \A h \in Pending :
            (Steps(h) /\ h.pc = "probe" /\ StepTrace.osc11Result # Null)
            => Cont = {} /\ ret'.trace.chosen = "osc11" /\ ret'.trace.osResult = Null
       /\ \A h \in Pending : (Steps(h) /\ h.pc = "os") => Cont = {}]_vars

\* A call has gone through all three sources: the override read gave
\* nothing, the probe was attempted and gave nothing, the OS answered.
C30_Witness ==
    /\ ret.kind = "direct"
    /\ ret.trace.override = Null
    /\ ret.trace.osc11Attempted
    /\ ret.trace.osc11Result = Null
    /\ ret.trace.osResult # Null
    /\ ret.trace.chosen = "os"

\* ------------------------------------------------------------------------
\* The engine called directly on a terminal whose reply comes in pieces
\* ------------------------------------------------------------------------
\* Replies with one to four digits per channel, black, grey and white.
Channels ==
    {<<"0">>, <<"f">>, <<"0", "0">>, <<"f", "f">>, <<"f", "f", "f">>,
     <<"0", "0", "0", "0">>, <<"8", "0", "8", "0">>, <<"f", "f", "f", "f">>}

WholeReplies ==
    {RgbReply(c, c, c) : c \in Channels}
    \cup {RgbReply(<<"f">>, <<"f", "f">>, <<"f", "f", "f">>)}

\* The reply arrives whole, or a poll finds it cut: inside the introducer,
\* inside rgb:, right after rgb:, inside the channels, before the last
\* character, or twice.
CutsOf(text) == {{}, {3}, {7}, {9}, {11}, {Len(text) - 1}, {7, 12}}

ArrivingReplies ==
    {NoReply} \cup
    UNION {{[w EXCEPT !.cuts = c] : c \in CutsOf(ReplyText(w))} : w \in WholeReplies}

InitReply == InitOn(ArrivingReplies)

SpecReply == InitReply /\ [][NextColour]_vars

ProbeEnds(h) == h.pc = "probe" /\ Steps(h)

\* C31: the script polls until the response matches the whole pattern or the
\* deadline has passed: a complete reply that arrives in several pieces
\* before the deadline is classified as the whole reply is, never reported
\* as none because polling stopped on a part of it.
C31_PollsUntilComplete ==
    [][\A h \in Pending :
          (ProbeEnds(h) /\ tty.kind = "rgb" /\ Match(ReplyText(tty)).ok)
          => /\ StepTrace.osc11Result \in Appearance
             /\ StepTrace.osc11Result = done(ReplyText(tty))]_vars

\* The reply rgb:ffff/ffff/ffff was cut after the second digit of the first
\* channel when the script polled, and the probe has ended with no result.
C31_Witness ==
    /\ tty = [RgbReply(<<"f", "f", "f", "f">>, <<"f", "f", "f", "f">>, <<"f", "f", "f", "f">>)
                EXCEPT !.cuts = {11}]
    /\ ret.trace.osc11Attempted
    /\ ret.trace.osc11Result = Null
    /\ ret.trace.chosen # "osc11"

\* A part that does not yet hold rgb: does not stop the polling, and a reply
\* that arrives whole is matched whole.
PartBeforeRgbIsHarmless ==
    [][\A h \in Pending :
          (ProbeEnds(h) /\ tty.kind = "rgb" /\ tty.cuts \subseteq {3, 7})
          => StepTrace.osc11Result = done(ReplyText(tty))]_vars

ChannelLengths(reply) == {Len(reply.r), Len(reply.g), Len(reply.b)}

\* C32: a reply whose channels have between 1 and 4 hexadecimal digits each
\* is accepted and classified by the most significant byte of each channel;
\* a reply with 1-digit channels yields dark or light, not none.
C32_OneToFourDigits ==
    [][\A h \in Pending :
          (/\ ProbeEnds(h) /\ tty.kind = "rgb" /\ tty.cuts = {}
           /\ ChannelLengths(tty) \subseteq 1..4)
          => StepTrace.osc11Result =
                IF Below128(luminance(to8Bit(tty.r), to8Bit(tty.g), to8Bit(tty.b)))
                THEN "dark" ELSE "light"]_vars

\* The terminal answered rgb:f/f/f in one piece and the probe has ended with
\* no result.
C32_Witness ==
    /\ tty = RgbReply(<<"f">>, <<"f">>, <<"f">>)
    /\ ret.trace.osc11Attempted
    /\ ret.trace.osc11Result = Null

\* Replies with two to four digits per channel that arrive whole are
\* classified by their first two digits.
TwoToFourDigits ==
    [][\A h \in Pending :
          (/\ ProbeEnds(h) /\ tty.kind = "rgb" /\ tty.cuts = {}
           /\ ChannelLengths(tty) \subseteq 2..4)
          => StepTrace.osc11Result =
                IF Below128(luminance(to8Bit(tty.r), to8Bit(tty.g), to8Bit(tty.b)))
                THEN "dark" ELSE "light"]_vars

\* ------------------------------------------------------------------------
\* The extension with every awaited operation completing
\* ------------------------------------------------------------------------
\* readFile, the probe's child process (killed by its timer) and the OS
\* queries (each with a timeout) all complete.
ResolutionStep ==
    \E h \in Pending : OverrideRead(h) \/ ProbeDone(h) \/ OSDone(h)

\* Session entries and the timer they start.
NextLive ==
    \/ SessionEnter
    \/ TimerFire
    \/ \E h \in Pending : ConfigLoaded(h)
    \/ \E h \in Pending : OverrideRead(h)
    \/ \E h \in Pending : ProbeDone(h)
    \/ \E h \in Pending : OSDone(h)
    \/ Advance

SpecLive == InitCommands /\ [][NextLive]_vars /\ WF_vars(ResolutionStep)

KillTimeoutMs == OSC11_QUERY_TIMEOUT_MS + OSC11_KILL_MARGIN_MS

\* C33: every probe call completes with exactly one result, dark, light or
\* none, within the caller's kill timeout, which is greater than the
\* script's poll deadline; so a tick that started a resolution finishes and
\* clears inFlight, also when setTheme throws, and later ticks are not
\* blocked forever.
C33_ProbeAndTickTerminate ==
    /\ [](/\ OSC11_SCRIPT_DEADLINE_MS < KillTimeoutMs
          /\ \A h \in Pending : h.pc = "probe" => now - h.now <= KillTimeoutMs)
    /\ [][/\ \A h \in Pending :
               ProbeEnds(h)
               => /\ StepTrace.osc11Result \in Appearance \cup {Null}
                  /\ CopiesIn(h, tasks') = CopiesIn(h, tasks) - 1
                  /\ Cardinality(Cont) <= 1
          /\ (event'.thrown /\ event'.kind \in {"timer", "enter"}) => ~inFlight']_vars
    /\ inFlight ~> ~inFlight

\* The timer's tick has finished with setTheme throwing, and inFlight is
\* clear.
C33_Witness ==
    /\ event.op = "return"
    /\ event.kind = "timer"
    /\ event.thrown
    /\ ret.trace.osc11Attempted = FALSE
    /\ ~inFlight

\* The sources a trace can name.
ChosenSources == {"override", "osc11", "osc11-cache", "os", "none"}

\* C34: every trace the engine returns is consistent and carries exactly one
\* decision: the appearance is none iff chosen is "none"; chosen "override"
\* implies the appearance is the override's value; chosen "osc11" implies a
\* probe was attempted and its result is the appearance; chosen
\* "osc11-cache" iff the used-cache flag is set, and then the appearance is
\* the stored lastAppearance; chosen "os" implies the appearance is the OS
\* result; and a probe result is recorded only if a probe was attempted.
C34_TraceConsistent ==
    ret # NoRet =>
      LET tr == ret.trace IN
      /\ tr.chosen \in ChosenSources
      /\ tr.appearance \in Appearance \cup {Null}
      /\ tr.appearance = Null <=> tr.chosen = "none"
      /\ tr.chosen = "override" => tr.override \in Appearance /\ tr.appearance = tr.override
      /\ tr.chosen = "osc11" => tr.osc11Attempted /\ tr.osc11Result = tr.appearance
      /\ tr.chosen = "osc11-cache" <=> tr.osc11UsedCache
      /\ tr.osc11UsedCache => tr.appearance = osc11State.lastAppearance
      /\ tr.chosen = "os" => tr.osResult = tr.appearance
      /\ tr.osc11Result # Null => tr.osc11Attempted

\* A call whose probe failed has returned the cached value.
C34_Witness ==
    /\ ret.kind = "direct"
    /\ ret.trace.chosen = "osc11-cache"
    /\ ret.trace.osc11UsedCache
    /\ ret.trace.osc11Attempted
    /\ ret.trace.osc11Result = Null
    /\ ret.trace.appearance = osc11State.lastAppearance

\* The call h, whose override read is ending, does not evaluate the probe
\* step: the override decides, or probing is disabled or not allowed by the
\* caller, or the probe is skipped because of the throttle or a cooldown.
SkipsProbeStep(h) ==
    \/ ~NotDecisive(h)
    \/ ~h.trace.osc11Enabled
    \/ ~allowOsc11Of(h)
    \/ ~canProbe(now, osc11State, h.forceOsc11, getOsc11MinIntervalMsOf(env))

\* C35: the probe state is mutated only by a resolution that evaluates the
\* probe step.  A call whose override is decisive, or for which probing is
\* disabled or not allowed, or which skips the probe because of throttle or
\* cooldown, starts no probe and leaves lastCheckedAt, lastAppearance,
\* failures and disabledUntil as they are, in the step that ends its
\* override read and in its OS query; so does the call itself; and a step
\* that changes the probe state is the start or the end of a probe.
C35_ProbeStateFrame ==
    [][/\ \A h \in Pending :
            (Steps(h) /\ h.pc = "override" /\ SkipsProbeStep(h))
            => ~ProbeStarted /\ osc11State' = osc11State
       /\ \A h \in Pending :
            (Steps(h) /\ h.pc = "os") => osc11State' = osc11State
       /\ (\A h \in Pending : ~Steps(h)) => osc11State' = osc11State
       /\ osc11State' # osc11State
            => \E h \in Pending :
                 /\ Steps(h)
                 /\ \/ h.pc = "override" /\ ProbeStarted /\ ~SkipsProbeStep(h)
                    \/ h.pc = "probe"]_vars

\* A call has been answered from the cache because of the throttle, while
\* the probe state records an earlier success and a later failure.
C35_Witness ==
    /\ ret.kind = "direct"
    /\ ret.trace.osc11SkipReason = "throttled"
    /\ ret.trace.chosen = "osc11-cache"
    /\ ~ret.trace.osc11Attempted
    /\ osc11State.failures > 0
    /\ osc11State.lastCheckedAt > 0

\* Probing is enabled and allowed for the call h.
ProbingAllowed(h) == h.trace.osc11Enabled /\ allowOsc11Of(h)

\* C36: the cached probe value never expires and comes before the OS query.
\* A resolution starts the OS query only if its override does not decide and
\* either probing is disabled or not allowed for the call or lastAppearance
\* is still none after the probe step.  Once a probe has succeeded
\* (lastAppearance is set), a call with probing allowed whose override does
\* not decide never waits for the OS query, and it returns a fresh probe
\* result or the cached value, also during a cooldown and after failed
\* attempts, whatever time has passed.
C36_CacheBeforeOS ==
    /\ [](\A h \in Pending :
            (h.pc = "os" /\ ProbingAllowed(h)) => osc11State.lastAppearance = Null)
    /\ [][/\ OSStarted
            => \E h \in Pending :
                 /\ Steps(h)
                 /\ h.pc \in {"override", "probe"}
                 /\ StepTrace.override \notin Appearance
                 /\ ~ProbingAllowed(h) \/ osc11State'.lastAppearance = Null
          /\ \A h \in Pending :
               (/\ Steps(h)
                /\ osc11State.lastAppearance # Null
                /\ ProbingAllowed(h)
                /\ StepTrace.override \notin Appearance)
               => /\ ~OSStarted
                  /\ Cont = {}
                     => /\ ret'.trace.chosen \in {"osc11", "osc11-cache"}
                        /\ ret'.trace.osResult = Null
                        /\ ret'.trace.chosen = "osc11-cache"
                           => ret'.trace.appearance = osc11State.lastAppearance]_vars

\* During a cooldown, a minimum interval or more after the last attempt, a
\* call has been answered from the cache.
C36_Witness ==
    /\ ret.kind = "direct"
    /\ ret.trace.chosen = "osc11-cache"
    /\ ret.trace.osc11SkipReason = "cooldown-until"
    /\ now - osc11State.lastCheckedAt >= OSC11_MIN_INTERVAL_MS
    /\ now < osc11State.disabledUntil

\* The probe of the pending call h was started before the latest reset of
\* the probe state: a started probe leaves lastCheckedAt at its start, later
\* starts only raise it, and a reset puts it back to 0.
StartedBeforeReset(h) == h.pc = "probe" /\ osc11State.lastCheckedAt < h.now

\* A session entry has reset the probe state and has not yet started its own
\* probe.
EntryHasReset == \E e \in Pending : e.kind = "enter" /\ e.pc = "override"

\* C37: after a session entry has reset the probe state, the state is
\* affected only by probes started after that entry: when a probe that was
\* started before the reset ends (the probe of a command still in flight),
\* it writes neither its result nor a failure count nor a cooldown into the
\* reset state.
C37_ResetIsolatesOldProbes ==
    [][\A h \in Pending :
         (ProbeEnds(h) /\ StartedBeforeReset(h) /\ EntryHasReset)
         => osc11State' = osc11State]_vars

\* The probe of a command is pending from before a session entry's reset.
C37_Witness ==
    /\ EntryHasReset
    /\ osc11State = resetOsc11State
    /\ \E h \in Pending : StartedBeforeReset(h) /\ h.kind = "debug"

\* session_shutdown has been handled in the last step.
ShutdownHandled == event.op = "shutdown"

\* C38: after session_shutdown has been handled no periodic timer is active,
\* and none becomes active until a later session entry or command starts
\* one: the step that follows the shutdown, whichever handler takes it (a
\* session entry or a command that was awaiting its resolution when the
\* shutdown arrived included), leaves the extension without a timer.
C38_ShutdownStopsTimer ==
    [][/\ ShutdownHandled' => intervalId' = 0 /\ liveTimers' = 0
       /\ ShutdownHandled => intervalId' = 0 /\ liveTimers' = 0]_vars

\* The shutdown has arrived while a session entry awaits its resolution.
C38_Witness ==
    /\ ShutdownHandled
    /\ intervalId = 0
    /\ \E h \in Pending : h.kind = "enter" /\ h.pc \in {"override", "probe", "os"}

\* C39: in every reachable state at most one periodic timer exists, and it
\* is the one intervalId refers to; a step that creates a timer has cleared
\* the previous one, so the number of timers never exceeds one whatever the
\* sequence of session entries, settings saves and refreshes.
C39_AtMostOneTimer ==
    /\ liveTimers \in {0, 1}
    /\ liveTimers = 1 <=> intervalId # 0

\* The settings command has replaced the timer by one with the saved period.
C39_Witness ==
    /\ event.op = "return"
    /\ event.kind = "settings"
    /\ liveTimers = 1
    /\ intervalId = MIN_POLL_MS
    /\ config.pollMs = MIN_POLL_MS

\* The settings command's save has failed in the step just taken.
SaveFailed == event.op = "save-failed"

\* C40: when saving in the settings command fails, the session state is as
\* before the command: the theme names and pollMs of the in-memory
\* configuration, which later ticks use, are the previously loaded ones
\* (those of the configuration file, which the failed save has not
\* changed), no theme change is made and the periodic timer is untouched.
C40_FailedSaveKeepsState ==
    [][SaveFailed'
       => /\ DraftOf(config') = DraftOf(loadConfig(cfgFile', env'))
          /\ cfgFile' = cfgFile
          /\ ui' = ui
          /\ lastAppliedTheme' = lastAppliedTheme
          /\ intervalId' = intervalId
          /\ liveTimers' = liveTimers]_vars

\* A save has failed with no configuration file on disk, and the in-memory
\* configuration carries the theme name and period of the draft.
C40_Witness ==
    /\ SaveFailed
    /\ cfgFile = NoCfgFile
    /\ config.darkTheme = "nord"
    /\ config.pollMs = MIN_POLL_MS
    /\ event.setTheme = Null

====
